---- MODULE Spec2Model ----
(***************************************************************************)
(* Okta group -> Grafana team synchronisation (GOTS).                      *)
(*                                                                         *)
(* The model follows src/src/sync_service.py (SyncService), the part of    *)
(* src/src/grafana_client.py the service calls, and the sync_job of        *)
(* src/src/main.py.  The Okta directory and the Grafana organisation are   *)
(* state; every port call may fail, which is an input of the action that   *)
(* makes the call.                                                         *)
(***************************************************************************)
EXTENDS Integers, Sequences, FiniteSets, TLC

VARIABLES
    okta,           \* Okta directory: group name -> set of member identities
    users,          \* Grafana org users: identity -> [role, isGrafanaAdmin]
    teams,          \* Grafana teams: team name -> set of member user ids
    config,         \* config.sync: dry_run, mappings, admin_groups
    pc,             \* position of sync_job: "sync", "roles" or "admin";
                    \* "exited" once main() has called sys.exit
    idx,            \* index of the next mapping of the for loop of sync_job
    desired_roles,  \* the dict of sync_job: lower-cased email -> role
    tick,           \* number of the scheduled run of sync_job in progress
    shutdown_requested, \* the global flag of main.py set by signal_handler
    sync_status,    \* MetricsCollector.sync_status: mapping key -> last status
    budget,         \* SyncService calls the environment may still disturb
    last,           \* record of the last SyncService call (observation)
    touched,        \* per team, the last sync_group_to_team call on it (observation)
    cur,            \* summary of the tick in progress (observation)
    done,           \* summary of the last completed tick (observation)
    exit_status,    \* {} while the process runs, {n} once it has exited with n
    last_sync_timestamp, \* gauge gots_last_sync_timestamp: mapping key -> time
    tm,             \* an OktaOAuthTokenManager and the threads calling it
    http,           \* one OktaClient._get call under its retry decorator
    mc,             \* a MetricsCollector and the threads calling it
    gs,             \* one GrafanaClient.get_team_by_name call
    pg              \* one OktaClient._get_paginated call and the pages it reads

\* sync_job, its SyncService and the process around them
sync_vars == <<okta, users, teams, config, pc, idx, desired_roles, tick,
               shutdown_requested, sync_status, budget, last, touched, cur, done,
               exit_status, last_sync_timestamp>>

\* the clients and the collector, each studied on its own
component_vars == <<tm, http, mc, gs, pg>>

vars == <<sync_vars, component_vars>>

----------------------------------------------------------------------------
(* Universes *)

Ids == {"alice", "bob"}
Groups == {"G1", "G2"}
TeamNames == {"T1", "T2"}
Roles == {"Admin", "Editor", "Viewer"}
None == "None"

\* Ports may return a member list in any order, with up to MaxDup repeated
\* entries.
MaxDup == 1

\* Scheduled runs of sync_job that are explored.
MaxTicks == 2

\* SyncService calls of one execution in which port calls fail.
MaxFaultyCalls == 1

----------------------------------------------------------------------------
(* Emails.  An email is a name in a letter case; str.lower() maps both     *)
(* cases of a name to the lower-case one.                                  *)

Email(id, up) == [name |-> id, upper |-> up]

lower(e) == [e EXCEPT !.upper = FALSE]

\* The case each directory stores: Okta holds "ALICE", Grafana "alice";
\* Okta holds "bob", Grafana "BOB".
OktaEmail(id) == Email(id, id = "alice")

GrafanaEmail(id) == Email(id, id # "alice")

LowerEmails(S) == {lower(OktaEmail(id)) : id \in S}

\* All lists over S that mention every element, with at most MaxDup repeats.
Listings(S) ==
    LET n == Cardinality(S)
    IN  UNION {{s \in [1..k -> S] : {s[i] : i \in 1..k} = S} : k \in n..(n + MaxDup)}

----------------------------------------------------------------------------
(* Role hierarchy *)

ROLE_HIERARCHY == [r \in Roles |-> CASE r = "Admin" -> 3 [] r = "Editor" -> 2 [] r = "Viewer" -> 1]

RoleRank(r) == IF r \in DOMAIN ROLE_HIERARCHY THEN ROLE_HIERARCHY[r] ELSE 0

get_highest_role_last(role1, role2) == role2

get_highest_role_lowest(role1, role2) ==
    IF RoleRank(role1) < RoleRank(role2) THEN role1 ELSE role2

get_highest_role(role1, role2) ==
    IF RoleRank(role1) > RoleRank(role2) THEN role1 ELSE role2

----------------------------------------------------------------------------
(* Grafana port *)

\* get_user_by_email scans /api/org/users for an email equal up to case.
get_user_by_email(us, email) ==
    LET hits == {id \in DOMAIN us : lower(GrafanaEmail(id)) = lower(email)}
    IN  IF hits = {} THEN None ELSE CHOOSE id \in hits : TRUE

\* get_team_members: one object per entry of the listing.
get_team_members(listing) ==
    [i \in DOMAIN listing |-> [userId |-> listing[i], email |-> GrafanaEmail(listing[i])]]

\* get_group_members_by_name: the email of profile.email of each entry.
get_group_members_by_name(listing) ==
    [i \in DOMAIN listing |-> OktaEmail(listing[i])]

\* GrafanaClient.get_user_by_email, lines 307-334, as its caller sees it:
\* when the fetch of /api/org/users is rejected with 401, 403 or 404 the
\* except clause answers None, as if the user did not exist.
lookup_user(us, rejected, email) ==
    IF email \in rejected THEN None ELSE get_user_by_email(us, email)

Call(op, target, arg) == [op |-> op, target |-> target, arg |-> arg]

----------------------------------------------------------------------------
(* sync_group_to_team, lines 99-132: the two email sets and the diff *)

okta_emails_of_as_listed(okta_members) ==
    {okta_members[i] : i \in DOMAIN okta_members}

okta_emails_of(okta_members) ==
    {lower(okta_members[i]) : i \in DOMAIN okta_members}

grafana_emails_of_as_listed(grafana_members) ==
    {grafana_members[i].email : i \in DOMAIN grafana_members}

grafana_emails_of(grafana_members) ==
    {lower(grafana_members[i].email) : i \in DOMAIN grafana_members}

to_add_of_everyone(okta_emails, grafana_emails) == okta_emails

to_add_of(okta_emails, grafana_emails) == okta_emails \ grafana_emails

to_remove_of_everyone(okta_emails, grafana_emails) == grafana_emails

to_remove_of_nothing(okta_emails, grafana_emails) == {}

to_remove_of(okta_emails, grafana_emails) == grafana_emails \ okta_emails

\* lines 122-126
track_desired_roles(desired, okta_emails, grafana_role) ==
    [e \in (DOMAIN desired) \cup okta_emails |->
        IF e \in okta_emails
        THEN get_highest_role(IF e \in DOMAIN desired THEN desired[e] ELSE "Viewer",
                              grafana_role)
        ELSE desired[e]]

\* line 167: next(m for m in grafana_members if m["email"].lower() == email)
\* (None stands for the StopIteration of an empty generator)
member_user_id(grafana_members, email) ==
    LET hit == {i \in DOMAIN grafana_members : lower(grafana_members[i].email) = email}
        first == CHOOSE i \in hit : \A j \in hit : i <= j
    IN  IF hit = {} THEN None ELSE grafana_members[first].userId

----------------------------------------------------------------------------
(* GrafanaClient.get_or_create_team.  abort names the port call that       *)
(* fails: the first search, the creation, or the search after creation.    *)

get_or_create_team_swallowing(ts, team_name, abort) ==
    [teams |-> IF team_name \in DOMAIN ts THEN ts ELSE (team_name :> {}) @@ ts,
     calls |-> IF team_name \in DOMAIN ts \/ abort = "team_search" THEN {}
               ELSE {Call("create_team", team_name, None)},
     ok    |-> TRUE]

get_or_create_team(ts, team_name, abort) ==
    IF abort = "team_search"
    THEN [teams |-> ts, calls |-> {}, ok |-> FALSE]
    ELSE IF team_name \in DOMAIN ts
    THEN [teams |-> ts, calls |-> {}, ok |-> TRUE]
    ELSE IF abort = "team_create"
    THEN [teams |-> ts, calls |-> {Call("create_team", team_name, None)}, ok |-> FALSE]
    ELSE [teams |-> (team_name :> {}) @@ ts,
          calls |-> {Call("create_team", team_name, None)},
          ok    |-> abort # "team_refetch"]

add_outcome_dry_uncounted(us, dry, F, email) ==
    IF email \in F.lookup THEN "error"
    ELSE IF lookup_user(us, F.rejected, email) = None THEN "skipped"
    ELSE IF dry THEN "skipped"
    ELSE IF email \in F.add THEN "error"
    ELSE "added"

add_outcome_lookup_swallowed(us, dry, F, email) ==
    IF email \in F.lookup THEN "skipped"
    ELSE IF lookup_user(us, F.rejected, email) = None THEN "skipped"
    ELSE IF dry THEN "added"
    ELSE IF email \in F.add THEN "error"
    ELSE "added"

add_outcome_provisioning(us, dry, F, email) ==
    IF email \in F.lookup THEN "error"
    ELSE IF dry THEN "added"
    ELSE IF email \in F.add THEN "error"
    ELSE "added"

add_outcome_rejection_counted(us, dry, F, email) ==
    IF email \in F.lookup \cup F.rejected THEN "error"
    ELSE IF get_user_by_email(us, email) = None THEN "skipped"
    ELSE IF dry THEN "added"
    ELSE IF email \in F.add THEN "error"
    ELSE "added"

\* One iteration of the add loop, lines 135-161.
add_outcome(us, dry, F, email) ==
    IF email \in F.lookup THEN "error"
    ELSE IF lookup_user(us, F.rejected, email) = None THEN "skipped"
    ELSE IF dry THEN "added"
    ELSE IF email \in F.add THEN "error"
    ELSE "added"

\* One iteration of the remove loop, lines 164-182.
remove_outcome(grafana_members, dry, F, email) ==
    IF member_user_id(grafana_members, email) = None THEN "error"
    ELSE IF dry THEN "removed"
    ELSE IF email \in F.remove THEN "error"
    ELSE "removed"

desired_roles_on_abort_tracked(desired, okta_emails, grafana_role, abort) ==
    IF abort = "okta" THEN desired
    ELSE track_desired_roles(desired, okta_emails, grafana_role)

\* lines 99-126: the loop that writes desired_roles (lines 122-126) comes
\* after the three fetches; an exception raised by one of them leaves the
\* dict as the caller passed it.
desired_roles_on_abort(desired, okta_emails, grafana_role, abort) == desired

SyncMetrics(a, r, e) == [users_added |-> a, users_removed |-> r, errors |-> e]

team_members_after_all_teams(ts, team_name, add_ids, remove_ids) ==
    [t \in DOMAIN ts |-> IF t = team_name THEN (ts[t] \cup add_ids) \ remove_ids
                                           ELSE ts[t] \ remove_ids]

\* The teams after the accepted requests of add_user_to_team (POST
\* /api/teams/{team_id}/members) and remove_user_from_team (DELETE
\* /api/teams/{team_id}/members/{user_id}): both name the team of the call.
team_members_after(ts, team_name, add_ids, remove_ids) ==
    [ts EXCEPT ![team_name] = (@ \cup add_ids) \ remove_ids]

users_added_of_attempts(add_out) ==
    Cardinality({e \in DOMAIN add_out : add_out[e] \in {"added", "error"}})

\* line 158: users_added is incremented at the end of an iteration that
\* neither continued at line 145 nor raised.
users_added_of(add_out) ==
    Cardinality({e \in DOMAIN add_out : add_out[e] = "added"})

\* The port failures of one call.  abort: the fetch that raises ("okta",
\* "team_search", "team_create", "team_refetch", "members") or "none";
\* lookup: emails whose user lookup raises; rejected: emails whose user
\* lookup is rejected with 401, 403 or 404; add, remove: emails whose add or
\* remove request raises.
NoFaults == [abort |-> "none", lookup |-> {}, rejected |-> {}, add |-> {}, remove |-> {}]

\* SyncService.sync_group_to_team.  om and gm are the orders in which the
\* two ports list the members; F says which port calls fail.
sync_group_to_team(us, ts, desired, m, dry, om, gm, F) ==
    LET okta_members    == get_group_members_by_name(om)
        okta_emails     == okta_emails_of(okta_members)
        got             == IF F.abort = "okta"
                           THEN [teams |-> ts, calls |-> {}, ok |-> FALSE]
                           ELSE get_or_create_team(ts, m.grafana_team, F.abort)
        grafana_members == get_team_members(gm)
        grafana_emails  == grafana_emails_of(grafana_members)
        to_add          == to_add_of(okta_emails, grafana_emails)
        to_remove       == to_remove_of(okta_emails, grafana_emails)
        add_out         == [e \in to_add |-> add_outcome(us, dry, F, e)]
        rem_out         == [e \in to_remove |-> remove_outcome(grafana_members, dry, F, e)]
        added           == {e \in to_add : add_out[e] = "added"}
        removed         == {e \in to_remove : rem_out[e] = "removed"}
        add_failed      == {e \in to_add : add_out[e] = "error"}
        remove_failed   == {e \in to_remove : rem_out[e] = "error"}
        add_calls       == IF dry THEN {}
                           ELSE {Call("add_user_to_team", m.grafana_team, get_user_by_email(us, e)) :
                                    e \in {x \in to_add : x \notin F.lookup
                                                /\ lookup_user(us, F.rejected, x) # None}}
        remove_calls    == IF dry THEN {}
                           ELSE {Call("remove_user_from_team", m.grafana_team,
                                      member_user_id(grafana_members, e)) :
                                    e \in {x \in to_remove :
                                                member_user_id(grafana_members, x) # None}}
        add_ids         == IF dry THEN {}
                           ELSE {get_user_by_email(us, e) : e \in added}
        remove_ids      == IF dry THEN {}
                           ELSE {member_user_id(grafana_members, e) : e \in removed}
    IN  IF F.abort = "okta" \/ ~got.ok \/ F.abort = "members"
        THEN [teams |-> got.teams,
              desired |-> desired_roles_on_abort(desired, okta_emails, m.grafana_role,
                                                 F.abort),
              raised |-> TRUE,
              metrics |-> SyncMetrics(0, 0, 1), calls |-> got.calls,
              to_add |-> {}, to_remove |-> {}, failed |-> {}, skipped |-> {}]
        ELSE [teams |-> team_members_after(got.teams, m.grafana_team, add_ids, remove_ids),
              desired |-> track_desired_roles(desired, okta_emails, m.grafana_role),
              raised |-> FALSE,
              metrics |-> SyncMetrics(users_added_of(add_out), Cardinality(removed),
                                      Cardinality(add_failed) + Cardinality(remove_failed)),
              calls |-> got.calls \cup add_calls \cup remove_calls,
              to_add |-> to_add, to_remove |-> to_remove,
              failed |-> add_failed \cup remove_failed,
              skipped |-> {e \in to_add : add_out[e] = "skipped"}]

----------------------------------------------------------------------------
(* sync_group_to_team cut short by the KeyboardInterrupt that              *)
(* signal_handler raises in the main thread.  cut.at is where the signal   *)
(* lands: "start" (lines 95-98: the start is recorded, the try block not   *)
(* yet entered), "fetch" (lines 101-126; cut.created: the missing team was *)
(* already created) or "loops" (lines 135-182).  cut.added and cut.removed *)
(* are the identities the two loops have finished with, cut.inflight the   *)
(* identity whose add or remove request reached Grafana while its          *)
(* iteration did not finish.  No except clause catches the interrupt; the  *)
(* finally clause (lines 188-207) records the completion.                  *)

SyncCuts(to_add, to_remove, team_exists) ==
    {[at |-> "start", created |-> FALSE, added |-> {}, removed |-> {}, inflight |-> {}]}
    \cup {[at |-> "fetch", created |-> c, added |-> {}, removed |-> {}, inflight |-> {}] :
                c \in (IF team_exists THEN {FALSE} ELSE BOOLEAN)}
    \cup UNION {UNION {{[at |-> "loops", created |-> ~team_exists,
                         added |-> A, removed |-> R, inflight |-> I] :
                            I \in {{}} \cup (IF A # to_add THEN {{x} : x \in to_add \ A}
                                             ELSE {{x} : x \in to_remove \ R})} :
                        R \in (IF A = to_add THEN SUBSET to_remove ELSE {{}})} :
                    A \in SUBSET to_add}

interrupted_sync(us, ts, m, dry, om, gm, cut) ==
    LET okta_emails     == okta_emails_of(get_group_members_by_name(om))
        got             == get_or_create_team(ts, m.grafana_team, "none")
        grafana_members == get_team_members(gm)
        grafana_emails  == grafana_emails_of(grafana_members)
        to_add          == to_add_of(okta_emails, grafana_emails)
        to_remove       == to_remove_of(okta_emails, grafana_emails)
        added           == {e \in cut.added : add_outcome(us, dry, NoFaults, e) = "added"}
        removed         == {e \in cut.removed :
                                remove_outcome(grafana_members, dry, NoFaults, e) = "removed"}
        sent_add        == IF dry THEN {}
                           ELSE {e \in added \cup (cut.inflight \cap to_add) :
                                    get_user_by_email(us, e) # None}
        sent_remove     == IF dry THEN {}
                           ELSE {e \in removed \cup (cut.inflight \cap to_remove) :
                                    member_user_id(grafana_members, e) # None}
        members         == (got.teams[m.grafana_team]
                                \cup {get_user_by_email(us, e) : e \in sent_add})
                            \ {member_user_id(grafana_members, e) : e \in sent_remove}
    IN  [teams     |-> IF cut.at = "loops" THEN [got.teams EXCEPT ![m.grafana_team] = members]
                       ELSE IF cut.created THEN got.teams
                       ELSE ts,
         completed |-> cut.at # "start",
         metrics   |-> SyncMetrics(Cardinality(added), Cardinality(removed), 0),
         to_add    |-> to_add,
         to_remove |-> to_remove]

----------------------------------------------------------------------------
(* SyncService.update_user_roles.  F.lookup: emails whose user lookup      *)
(* raises or is rejected (it then answers None): either way the identity   *)
(* is left alone and not counted; F.update: emails whose role PATCH raises.*)

role_outcome_raise_only(us, desired, dry, F, email) ==
    IF email \in F.lookup THEN "error"
    ELSE IF get_user_by_email(us, email) = None THEN "skipped"
    ELSE IF RoleRank(us[get_user_by_email(us, email)].role) >= RoleRank(desired[email])
    THEN "same"
    ELSE IF dry THEN "updated"
    ELSE IF email \in F.update THEN "error"
    ELSE "updated"

role_outcome_failure_counted(us, desired, dry, F, email) ==
    IF email \in F.lookup THEN "error"
    ELSE IF get_user_by_email(us, email) = None THEN "skipped"
    ELSE IF us[get_user_by_email(us, email)].role = desired[email] THEN "same"
    ELSE "updated"

role_outcome_rank_only(us, desired, dry, F, email) ==
    IF email \in F.lookup THEN "error"
    ELSE IF get_user_by_email(us, email) = None THEN "skipped"
    ELSE IF RoleRank(us[get_user_by_email(us, email)].role) > RoleRank(desired[email])
    THEN "same"
    ELSE IF us[get_user_by_email(us, email)].role = desired[email] THEN "same"
    ELSE IF dry THEN "updated"
    ELSE IF email \in F.update THEN "error"
    ELSE "updated"

role_outcome(us, desired, dry, F, email) ==
    IF email \in F.lookup THEN "error"
    ELSE IF get_user_by_email(us, email) = None THEN "skipped"
    ELSE IF us[get_user_by_email(us, email)].role = desired[email] THEN "same"
    ELSE IF dry THEN "updated"
    ELSE IF email \in F.update THEN "error"
    ELSE "updated"

update_user_roles_resetting_unlisted(us, desired, dry, F) ==
    LET out     == [e \in DOMAIN desired |-> role_outcome(us, desired, dry, F, e)]
        updated == {e \in DOMAIN desired : out[e] = "updated"}
        listed  == {get_user_by_email(us, e) : e \in DOMAIN desired}
    IN  [users |-> IF dry THEN us
                   ELSE [id \in DOMAIN us |->
                            IF \E e \in updated : get_user_by_email(us, e) = id
                            THEN [us[id] EXCEPT !.role =
                                    desired[CHOOSE e \in updated : get_user_by_email(us, e) = id]]
                            ELSE IF id \in listed THEN us[id]
                            ELSE [us[id] EXCEPT !.role = "Viewer"]],
         count |-> Cardinality(updated),
         calls |-> {Call("update_user_role", get_user_by_email(us, e), desired[e]) :
                        e \in {x \in DOMAIN desired : out[x] = "updated" /\ ~dry}},
         failed |-> {e \in DOMAIN desired : out[e] = "error"}]

\* lines 223-259: one iteration per item of desired_roles.
update_user_roles(us, desired, dry, F) ==
    LET out     == [e \in DOMAIN desired |-> role_outcome(us, desired, dry, F, e)]
        updated == {e \in DOMAIN desired : out[e] = "updated"}
        called  == {e \in DOMAIN desired :
                        /\ ~dry
                        /\ e \notin F.lookup
                        /\ get_user_by_email(us, e) # None
                        /\ us[get_user_by_email(us, e)].role # desired[e]}
    IN  [users |-> IF dry THEN us
                   ELSE [id \in DOMAIN us |->
                            IF \E e \in updated : get_user_by_email(us, e) = id
                            THEN [us[id] EXCEPT !.role =
                                    desired[CHOOSE e \in updated : get_user_by_email(us, e) = id]]
                            ELSE us[id]],
         count |-> Cardinality(updated),
         calls |-> {Call("update_user_role", get_user_by_email(us, e), desired[e]) : e \in called},
         failed |-> {e \in DOMAIN desired : out[e] = "error"}]

----------------------------------------------------------------------------
(* SyncService.sync_admin_privileges.  F.groups: admin groups whose lookup *)
(* raises; F.roster: the fetch of /api/org/users raises; F.set: user ids   *)
(* whose permission PUT raises.                                            *)

Range(s) == {s[i] : i \in DOMAIN s}

\* One of Listings(S): the members once each, in some order.
RECURSIVE AnyListing(_)
AnyListing(S) ==
    IF S = {} THEN <<>>
    ELSE LET x == CHOOSE y \in S : TRUE
         IN  <<x>> \o AnyListing(S \ {x})

admin_emails_of_all_or_nothing(ok, admin_groups, F) ==
    IF F.groups # {} THEN {}
    ELSE UNION {okta_emails_of(get_group_members_by_name(AnyListing(ok[g]))) :
                    g \in Range(admin_groups)}

admin_emails_of(ok, admin_groups, F) ==
    UNION {okta_emails_of(get_group_members_by_name(AnyListing(ok[g]))) :
                g \in Range(admin_groups) \ F.groups}

admin_outcome_grant_only(us, admin_emails, dry, F, id) ==
    LET email           == lower(GrafanaEmail(id))
        should_be_admin == email \in admin_emails
    IN  IF us[id].isGrafanaAdmin \/ ~should_be_admin THEN "same"
        ELSE IF dry THEN "updated"
        ELSE IF id \in F.set THEN "error"
        ELSE "updated"

admin_outcome_union_required(us, admin_emails, dry, F, id) ==
    LET email           == lower(GrafanaEmail(id))
        should_be_admin == email \in admin_emails
    IN  IF admin_emails = {} \/ us[id].isGrafanaAdmin = should_be_admin THEN "same"
        ELSE IF dry THEN "updated"
        ELSE IF id \in F.set THEN "error"
        ELSE "updated"

\* One iteration of the sweep, lines 307-339.
admin_outcome(us, admin_emails, dry, F, id) ==
    LET email           == lower(GrafanaEmail(id))
        should_be_admin == email \in admin_emails
    IN  IF us[id].isGrafanaAdmin = should_be_admin THEN "same"
        ELSE IF dry THEN "updated"
        ELSE IF id \in F.set THEN "error"
        ELSE "updated"

admin_reads_roster_always(admin_groups) ==
    {Call("get_group_members_by_name", g, None) : g \in Range(admin_groups)}
        \cup {Call("_get", "/api/org/users", None)}

\* The read calls of sync_admin_privileges: none when the list is empty
\* (lines 274-276), else one member fetch per admin group (lines 284-293)
\* and the fetch of the org users (lines 300-303).
admin_reads(admin_groups) ==
    IF admin_groups = <<>> THEN {}
    ELSE {Call("get_group_members_by_name", g, None) : g \in Range(admin_groups)}
            \cup {Call("_get", "/api/org/users", None)}

admin_exception_roster_propagates(F) == IF F.roster THEN "Exception" ELSE "none"

\* The exception that leaves sync_admin_privileges: the except clauses of
\* lines 292, 334 and 341 catch every Exception of a port call.
admin_exception(F) == "none"

sync_admin_privileges(us, ok, admin_groups, dry, F) ==
    LET admin_emails == admin_emails_of(ok, admin_groups, F)
        out          == [id \in DOMAIN us |-> admin_outcome(us, admin_emails, dry, F, id)]
        updated      == {id \in DOMAIN us : out[id] = "updated"}
        called       == {id \in DOMAIN us : ~dry /\ out[id] # "same"}
    IN  IF admin_groups = <<>> \/ F.roster
        THEN [users |-> us, count |-> 0, calls |-> {}, failed |-> {},
              reads |-> admin_reads(admin_groups),
              exc |-> IF admin_groups = <<>> THEN "none" ELSE admin_exception(F)]
        ELSE [users |-> IF dry THEN us
                        ELSE [id \in DOMAIN us |->
                                IF id \in updated
                                THEN [us[id] EXCEPT !.isGrafanaAdmin =
                                            lower(GrafanaEmail(id)) \in admin_emails]
                                ELSE us[id]],
              count |-> Cardinality(updated),
              calls |-> {Call("set_user_admin_permission", id,
                              lower(GrafanaEmail(id)) \in admin_emails) : id \in called},
              failed |-> {id \in DOMAIN us : out[id] = "error"},
              reads |-> admin_reads(admin_groups),
              exc |-> admin_exception(F)]

----------------------------------------------------------------------------
(* MetricsCollector.sync_status.  An entry keeps the status and the error  *)
(* count of the mapping's last call.                                       *)

\* key = f"{okta_group}->{grafana_team}"
StatusKey(m) == <<m.okta_group, m.grafana_team>>

record_sync_start(status, key) ==
    (key :> [status |-> "in_progress", errors |-> 0]) @@ status

record_sync_complete_always_completed(status, key, errors) ==
    (key :> [status |-> "completed", errors |-> errors]) @@ status

record_sync_complete(status, key, errors) ==
    (key :> [status |-> IF errors = 0 THEN "completed" ELSE "failed",
             errors |-> errors]) @@ status

\* record_sync_complete, line 108: last_sync_timestamp.labels(**labels).set(
\* time.time()), whatever the error count is.
set_last_sync_timestamp(gauge, key, errors, now) == (key :> now) @@ gauge

\* time.time() during the run_sync of mapping i of scheduled run t, for a
\* configuration of n mappings: later calls read later times.
SyncTime(t, i, n) == (t - 1) * n + i

----------------------------------------------------------------------------
(* main.py: run_sync and the sequencing of sync_job *)

\* run_sync, lines 129-151: what leaves run_sync when sync_group_to_team
\* exits with exc ("none", "Exception" or "KeyboardInterrupt").
run_sync_propagating(exc) == exc

run_sync_swallowing(exc) == "none"

run_sync(exc) == IF exc = "KeyboardInterrupt" THEN "KeyboardInterrupt" ELSE "none"

signal_handler_always_interrupt(requested) ==
    [shutdown_requested |-> TRUE, raises |-> "KeyboardInterrupt"]

signal_handler_flag_only(requested) ==
    [shutdown_requested |-> TRUE, raises |-> "none"]

\* signal_handler, lines 65-85: a second signal exits at once, the first one
\* sets the flag and raises KeyboardInterrupt.
signal_handler(requested) ==
    [shutdown_requested |-> TRUE,
     raises |-> IF requested THEN "SystemExit" ELSE "KeyboardInterrupt"]

\* lines 244-256: after the run_sync of mapping i of n, the for loop goes on
\* with the next mapping; the role pass follows the last one.
sync_job_after_mapping_first_only(i, n) == "roles"

sync_job_after_mapping(i, n) == IF i = n THEN "roles" ELSE "sync"

\* sync_job, lines 245-246: a mapping is started unless the flag is set.
sync_job_starts_mapping(shutdown) == ~shutdown

sync_job_runs_role_pass_always(shutdown, desired) == ~shutdown

\* sync_job, line 256: the role pass runs unless the flag is set or no role
\* is desired.
sync_job_runs_role_pass(shutdown, desired) == ~shutdown /\ desired # <<>>

\* sync_job, line 262: the admin pass runs unless the flag is set or no
\* admin group is configured.
sync_job_runs_admin_pass(shutdown, admin_groups) == ~shutdown /\ admin_groups # <<>>

\* line 241: desired_roles = {} at the start of every sync_job.
desired_roles_at_start_kept(previous) == previous

desired_roles_at_start(previous) == <<>>

----------------------------------------------------------------------------
(* Configurations and initial states *)

Mapping(g, t, r) == [okta_group |-> g, grafana_team |-> t, grafana_role |-> r]

\* config.sync.mappings and config.sync.admin_groups (at least one mapping,
\* roles validated by GroupMapping.__post_init__).
SyncConfigs ==
    { [mappings |-> <<Mapping("G1", "T1", "Viewer"), Mapping("G2", "T2", "Admin")>>,
       admin_groups |-> <<"G1", "G2">>],
      [mappings |-> <<Mapping("G1", "T1", "Editor")>>,
       admin_groups |-> <<>>],
      [mappings |-> <<Mapping("G1", "T1", "Admin"), Mapping("G2", "T1", "Editor")>>,
       admin_groups |-> <<"G2">>] }

UserRecords == [role : Roles, isGrafanaAdmin : BOOLEAN]

UserStates == UNION {[S -> UserRecords] : S \in SUBSET Ids}

TeamStates(us) == UNION {[T -> SUBSET (DOMAIN us)] : T \in SUBSET TeamNames}

\* What the two directories hold about one identity: the Okta groups it is
\* in, its Grafana user (a set, empty when it never logged in) and the teams
\* it is in.
Profile(G, u, T) == [groups |-> G, user |-> u, member_of |-> T]

AliceProfiles ==
    {Profile(G, {}, {}) : G \in SUBSET Groups}
    \cup {Profile(G, {u}, T) : G \in SUBSET Groups, u \in UserRecords,
                               T \in {{}, {"T1"}, {"T1", "T2"}}}

BobProfiles ==
    { Profile({}, {[role |-> "Admin", isGrafanaAdmin |-> TRUE]}, {"T1"}),
      Profile({"G1", "G2"}, {}, {}),
      Profile({"G2"}, {[role |-> "Viewer", isGrafanaAdmin |-> FALSE]}, {}) }

\* Port failures are explored from these directories.
AliceFaultProfiles ==
    {Profile(G, {}, {}) : G \in SUBSET Groups}
    \cup {Profile(G, {[role |-> "Viewer", isGrafanaAdmin |-> FALSE]}, T) :
                G \in SUBSET Groups, T \in {{}, {"T1"}}}

ProfilesOf(pa, pb) == [id \in Ids |-> IF id = "alice" THEN pa ELSE pb]

NoRoleFaults == [lookup |-> {}, update |-> {}]

NoAdminFaults == [groups |-> {}, roster |-> FALSE, set |-> {}]

\* Where a shutdown signal cut a SyncService call short.
NoCut == [at |-> "none", created |-> FALSE, added |-> {}, removed |-> {}, inflight |-> {}]

NoCall ==
    [op |-> "none", mapping |-> 0, src |-> {}, pre |-> {}, team_existed |-> FALSE,
     raised |-> FALSE, abort |-> "none", to_add |-> {}, to_remove |-> {},
     skipped |-> {}, faults |-> NoFaults, failed |-> {},
     metrics |-> SyncMetrics(0, 0, 0), count |-> 0, calls |-> {},
     mut_failed |-> FALSE, twin |-> [users_added |-> 0, users_removed |-> 0, count |-> 0],
     repeat |-> "no", users_pre |-> <<>>, desired_pre |-> <<>>, teams_pre |-> <<>>, rfaults |-> NoRoleFaults,
     afaults |-> NoAdminFaults, cut |-> NoCut, reads |-> {},
     empty |-> [count |-> 0, calls |-> {}, reads |-> {}, users |-> <<>>],
     exc |-> "none"]

FreshTick ==
    [clean |-> TRUE, aborted |-> {}, add_empty |-> TRUE, remove_empty |-> TRUE,
     add_unprov |-> TRUE, no_updates |-> TRUE, no_mut |-> TRUE,
     ran |-> {}, roles |-> "pending"]

\* The clients and the collector at rest: no call on them is in progress.
ComponentsIdle ==
    /\ tm = <<>>
    /\ http = <<>>
    /\ mc = <<>>
    /\ gs = <<>>
    /\ pg = <<>>

Init ==
    /\ ComponentsIdle
    /\ exit_status = {}
    /\ last_sync_timestamp = <<>>
    /\ \E pa \in AliceProfiles, pb \in BobProfiles, absent \in SUBSET TeamNames :
          LET P == ProfilesOf(pa, pb)
          IN  /\ \A t \in absent : \A id \in Ids : t \notin P[id].member_of
              /\ okta = [g \in Groups |-> {id \in Ids : g \in P[id].groups}]
              /\ users = [id \in {i \in Ids : P[i].user # {}} |->
                                CHOOSE u \in P[id].user : TRUE]
              /\ teams = [t \in TeamNames \ absent |-> {id \in Ids : t \in P[id].member_of}]
              /\ budget \in (IF pa \in AliceFaultProfiles THEN {0, MaxFaultyCalls} ELSE {0})
    /\ \E c \in SyncConfigs, d \in BOOLEAN :
            config = [dry_run |-> d, mappings |-> c.mappings, admin_groups |-> c.admin_groups]
    /\ pc = "sync"
    /\ idx = 1
    /\ desired_roles = <<>>
    /\ tick = 1
    /\ shutdown_requested = FALSE
    /\ sync_status = <<>>
    /\ last = NoCall
    /\ touched = [t \in TeamNames |-> [mapping |-> 0, clean |-> FALSE]]
    /\ cur = FreshTick
    /\ done = [FreshTick EXCEPT !.clean = FALSE] @@ [valid |-> FALSE, after_clean |-> FALSE]

----------------------------------------------------------------------------
(* Which port calls of one SyncService call may fail *)

SyncFaults(us, src, pre, team_exists, dry, b) ==
    IF b = 0 THEN {NoFaults} ELSE
    LET ta  == LowerEmails(src \ pre)
        rem == IF dry THEN {} ELSE LowerEmails(pre \ src)
        found(L)   == {e \in ta \ L : get_user_by_email(us, e) # None}
        addable(L) == IF dry THEN {} ELSE found(L)
    IN  {[NoFaults EXCEPT !.abort = a] :
            a \in {"okta", "team_search", "members"}
                    \cup (IF team_exists THEN {} ELSE {"team_create", "team_refetch"})}
        \cup UNION {UNION {UNION {{[abort |-> "none", lookup |-> L, rejected |-> D,
                                     add |-> A, remove |-> R] :
                                        R \in SUBSET rem} :
                                    A \in SUBSET (addable(L) \ D)} :
                            D \in SUBSET found(L)} :
                    L \in SUBSET ta}

RoleFaults(us, desired, dry, b) ==
    IF b = 0 THEN {NoRoleFaults} ELSE
    LET changing(L) == IF dry THEN {}
                       ELSE {e \in (DOMAIN desired) \ L :
                                /\ get_user_by_email(us, e) # None
                                /\ us[get_user_by_email(us, e)].role # desired[e]}
    IN  UNION {{[lookup |-> L, update |-> U] : U \in SUBSET changing(L)} :
                    L \in SUBSET DOMAIN desired}

AdminFaults(us, ok, admin_groups, dry, b) ==
    IF b = 0 THEN {NoAdminFaults} ELSE
    LET changing(G) == IF dry THEN {}
                       ELSE {id \in DOMAIN us :
                                admin_outcome(us, admin_emails_of(ok, admin_groups,
                                    [NoAdminFaults EXCEPT !.groups = G]), TRUE, NoAdminFaults, id)
                                    = "updated"}
    IN  {[groups |-> G, roster |-> TRUE, set |-> {}] : G \in SUBSET Range(admin_groups)}
        \cup UNION {{[groups |-> G, roster |-> FALSE, set |-> S] : S \in SUBSET changing(G)} :
                        G \in SUBSET Range(admin_groups)}

----------------------------------------------------------------------------
(* sync_job, main.py lines 235-265.  One action per SyncService call; the  *)
(* calls of one tick follow each other on the single thread of main().     *)

TeamMembers(ts, t) == IF t \in DOMAIN ts THEN ts[t] ELSE {}

\* run_sync of the mapping at idx: sync_group_to_team, whose exception
\* run_sync logs and absorbs.
RunSync ==
    /\ pc = "sync"
    /\ sync_job_starts_mapping(shutdown_requested)
    /\ tick <= MaxTicks
    /\ idx <= Len(config.mappings)
    /\ LET m   == config.mappings[idx]
           t   == m.grafana_team
           src == okta[m.okta_group]
           pre == TeamMembers(teams, t)
       IN  \E F \in SyncFaults(users, src, pre, t \in DOMAIN teams, config.dry_run, budget) :
           \* every order and repetition of the two member lists; one order
           \* when a port call fails
           \E rt \in {[r  |-> sync_group_to_team(users, teams, desired_roles, m,
                                                  config.dry_run, om, gm, F),
                        tw |-> sync_group_to_team(users, teams, desired_roles, m,
                                                  ~config.dry_run, om, gm, F)] :
                        om \in (IF F = NoFaults THEN Listings(src) ELSE {AnyListing(src)}),
                        gm \in (IF F = NoFaults THEN Listings(pre) ELSE {AnyListing(pre)})} :
           \E r \in {rt.r} : \E tw \in {rt.tw} :
                  /\ teams' = r.teams
                  /\ desired_roles' = r.desired
                  /\ sync_status' = record_sync_complete(
                                        record_sync_start(sync_status, StatusKey(m)),
                                        StatusKey(m), r.metrics.errors)
                  /\ last_sync_timestamp' = set_last_sync_timestamp(
                                        last_sync_timestamp, StatusKey(m), r.metrics.errors,
                                        SyncTime(tick, idx, Len(config.mappings)))
                  /\ pc' = IF run_sync(IF r.raised THEN "Exception" ELSE "none") = "none"
                            THEN sync_job_after_mapping(idx, Len(config.mappings))
                            ELSE "exited"
                  /\ last' = [NoCall EXCEPT
                                !.op = "sync", !.mapping = idx, !.src = src, !.pre = pre,
                                !.users_pre = users, !.desired_pre = desired_roles,
                                !.teams_pre = teams,
                                !.team_existed = t \in DOMAIN teams,
                                !.raised = r.raised, !.abort = F.abort,
                                !.to_add = r.to_add, !.to_remove = r.to_remove,
                                !.skipped = r.skipped, !.faults = F,
                                !.failed = r.failed,
                                !.metrics = r.metrics, !.calls = r.calls,
                                !.mut_failed = (F.add # {} \/ F.remove # {}),
                                !.twin = [users_added |-> tw.metrics.users_added,
                                          users_removed |-> tw.metrics.users_removed,
                                          count |-> 0],
                                !.repeat = IF touched[t].mapping # idx THEN "no"
                                           ELSE IF touched[t].clean THEN "clean"
                                           ELSE "dirty"]
                  /\ budget' = IF F = NoFaults THEN budget ELSE budget - 1
                  /\ touched' = [touched EXCEPT ![t] =
                                    [mapping |-> idx,
                                     clean |-> ~config.dry_run /\ F = NoFaults]]
                  /\ cur' = [cur EXCEPT
                                !.clean = @ /\ F = NoFaults,
                                !.ran = @ \cup {idx},
                                !.aborted = IF r.raised THEN @ \cup {idx} ELSE @,
                                !.add_empty = @ /\ r.to_add = {},
                                !.remove_empty = @ /\ r.to_remove = {},
                                !.add_unprov = @ /\ r.to_add = r.skipped,
                                !.no_mut = @ /\ r.calls = {}]
    /\ idx' = idx + 1
    /\ UNCHANGED <<okta, users, config, tick, shutdown_requested, done, exit_status>>
    /\ UNCHANGED component_vars

\* lines 255-259: the role pass, skipped when desired_roles is empty.
RolePass ==
    /\ pc = "roles"
    /\ IF ~sync_job_runs_role_pass(shutdown_requested, desired_roles)
       THEN /\ last' = [NoCall EXCEPT !.op = "roles_skipped", !.users_pre = users]
            /\ cur' = [cur EXCEPT !.roles = "skipped"]
            /\ UNCHANGED <<users, budget>>
       ELSE \E F \in RoleFaults(users, desired_roles, config.dry_run, budget) :
            \E r \in {update_user_roles(users, desired_roles, config.dry_run, F)} :
            \E tw \in {update_user_roles(users, desired_roles, ~config.dry_run, F)} :
                  /\ users' = r.users
                  /\ last' = [NoCall EXCEPT
                                !.op = "roles", !.count = r.count, !.calls = r.calls,
                                !.failed = r.failed, !.mut_failed = F.update # {},
                                !.users_pre = users, !.rfaults = F,
                                !.twin = [users_added |-> 0, users_removed |-> 0,
                                          count |-> tw.count]]
                  /\ budget' = IF F = NoRoleFaults THEN budget ELSE budget - 1
                  /\ cur' = [cur EXCEPT
                                !.clean = @ /\ F = NoRoleFaults,
                                !.roles = "done",
                                !.no_updates = @ /\ r.calls = {},
                                !.no_mut = @ /\ r.calls = {}]
    /\ pc' = "admin"
    /\ UNCHANGED <<okta, teams, config, idx, desired_roles, tick,
                   shutdown_requested, sync_status, touched, done,
                   exit_status, last_sync_timestamp>>
    /\ UNCHANGED component_vars

\* lines 261-265: the admin pass, skipped when no admin group is configured;
\* sync_job then returns and the next scheduled run starts with an empty dict.
AdminPass ==
    /\ pc = "admin"
    /\ LET due  == sync_job_runs_admin_pass(shutdown_requested, config.admin_groups)
           none == [users |-> users, count |-> 0, calls |-> {}, failed |-> {}, reads |-> {},
                    exc |-> "none"]
       IN
       \E F \in (IF ~due THEN {NoAdminFaults}
                 ELSE AdminFaults(users, okta, config.admin_groups, config.dry_run, budget)) :
       \E r \in {IF due THEN sync_admin_privileges(users, okta, config.admin_groups,
                                                    config.dry_run, F)
                  ELSE none} :
       \E tw \in {IF due THEN sync_admin_privileges(users, okta, config.admin_groups,
                                                     ~config.dry_run, F)
                   ELSE none} :
       \* for observation: the same call with an empty list of admin groups
       \E em \in {sync_admin_privileges(users, okta, <<>>, config.dry_run, F)} :
          LET fin == [cur EXCEPT
                        !.clean = @ /\ F = NoAdminFaults,
                        !.no_updates = @ /\ r.calls = {},
                        !.no_mut = @ /\ r.calls = {}]
          IN  /\ users' = r.users
              /\ last' = [NoCall EXCEPT
                            !.op = IF due THEN "admin" ELSE "admin_skipped",
                            !.count = r.count, !.calls = r.calls, !.reads = r.reads,
                            !.empty = [count |-> em.count, calls |-> em.calls,
                                       reads |-> em.reads, users |-> em.users],
                            !.failed = r.failed, !.mut_failed = F.set # {},
                            !.users_pre = users, !.afaults = F, !.exc = r.exc,
                            !.twin = [users_added |-> 0, users_removed |-> 0,
                                      count |-> tw.count]]
              /\ budget' = IF F = NoAdminFaults THEN budget ELSE budget - 1
              /\ done' = fin @@ [valid |-> TRUE, after_clean |-> done.valid /\ done.clean]
              \* an exception that left sync_job would end main() at lines 299-301
              /\ pc' = IF r.exc = "none" THEN "sync" ELSE "exited"
              /\ exit_status' = IF r.exc = "none" THEN exit_status ELSE {1}
    /\ cur' = FreshTick
    /\ idx' = 1
    /\ desired_roles' = desired_roles_at_start(desired_roles)
    /\ tick' = tick + 1
    /\ UNCHANGED <<okta, teams, config, shutdown_requested, sync_status, touched,
                   last_sync_timestamp>>
    /\ UNCHANGED component_vars

Next == RunSync \/ RolePass \/ AdminPass

Spec == Init /\ [][Next]_vars

----------------------------------------------------------------------------
(* SIGTERM / SIGINT.  The handler runs in the main thread, in the middle   *)
(* of whatever sync_job is doing; the KeyboardInterrupt it raises leaves   *)
(* sync_job and main() exits (lines 296-298).                              *)

\* The signal arrives during the run_sync of the mapping at idx.
InterruptSync ==
    /\ pc = "sync"
    /\ tick <= MaxTicks
    /\ idx <= Len(config.mappings)
    /\ LET m   == config.mappings[idx]
           t   == m.grafana_team
           src == okta[m.okta_group]
           pre == TeamMembers(teams, t)
           h   == signal_handler(shutdown_requested)
       IN  \E cut \in SyncCuts(LowerEmails(src \ pre), LowerEmails(pre \ src),
                                t \in DOMAIN teams) :
           \E r \in {interrupted_sync(users, teams, m, config.dry_run,
                                      AnyListing(src), AnyListing(pre), cut)} :
              /\ teams' = r.teams
              /\ sync_status' =
                    IF r.completed
                    THEN record_sync_complete(record_sync_start(sync_status, StatusKey(m)),
                                              StatusKey(m), r.metrics.errors)
                    ELSE record_sync_start(sync_status, StatusKey(m))
              /\ last_sync_timestamp' =
                    IF r.completed
                    THEN set_last_sync_timestamp(last_sync_timestamp, StatusKey(m),
                                                 r.metrics.errors,
                                                 SyncTime(tick, idx, Len(config.mappings)))
                    ELSE last_sync_timestamp
              /\ desired_roles' =
                    IF cut.at = "loops"
                    THEN track_desired_roles(desired_roles, LowerEmails(src), m.grafana_role)
                    ELSE desired_roles
              /\ shutdown_requested' = h.shutdown_requested
              /\ pc' = IF run_sync(h.raises) = "none"
                        THEN sync_job_after_mapping(idx, Len(config.mappings))
                        ELSE "exited"
              /\ last' = [NoCall EXCEPT
                            !.op = "sync_interrupted", !.mapping = idx,
                            !.users_pre = users,
                            !.src = src, !.pre = pre,
                            !.team_existed = t \in DOMAIN teams,
                            !.to_add = r.to_add, !.to_remove = r.to_remove,
                            !.metrics = r.metrics, !.cut = cut, !.exc = h.raises]
    /\ UNCHANGED <<okta, users, config, idx, tick, budget, touched, cur, done,
                   exit_status>>
    /\ UNCHANGED component_vars

\* The signal arrives during update_user_roles, after the identities of P.
InterruptRoles ==
    /\ pc = "roles"
    /\ desired_roles # <<>>
    /\ \E P \in SUBSET DOMAIN desired_roles :
          /\ users' = update_user_roles(users, [e \in P |-> desired_roles[e]],
                                        config.dry_run, NoRoleFaults).users
          /\ last' = [NoCall EXCEPT !.op = "roles_interrupted", !.users_pre = users,
                                    !.failed = (DOMAIN desired_roles) \ P,
                                    !.exc = signal_handler(shutdown_requested).raises]
    /\ shutdown_requested' = signal_handler(shutdown_requested).shutdown_requested
    /\ pc' = "exited"
    /\ UNCHANGED <<okta, teams, config, idx, desired_roles, tick, sync_status,
                   budget, touched, cur, done, exit_status, last_sync_timestamp>>
    /\ UNCHANGED component_vars

\* The signal arrives during sync_admin_privileges, after the users of P.
InterruptAdmin ==
    /\ pc = "admin"
    /\ config.admin_groups # <<>>
    /\ \E P \in SUBSET DOMAIN users :
       \E r \in {sync_admin_privileges(users, okta, config.admin_groups,
                                        config.dry_run, NoAdminFaults)} :
          /\ users' = [id \in DOMAIN users |-> IF id \in P THEN r.users[id] ELSE users[id]]
          /\ last' = [NoCall EXCEPT !.op = "admin_interrupted", !.users_pre = users,
                                    !.failed = (DOMAIN users) \ P,
                                    !.exc = signal_handler(shutdown_requested).raises]
    /\ shutdown_requested' = signal_handler(shutdown_requested).shutdown_requested
    /\ pc' = "exited"
    /\ UNCHANGED <<okta, teams, config, idx, desired_roles, tick, sync_status,
                   budget, touched, cur, done, exit_status, last_sync_timestamp>>
    /\ UNCHANGED component_vars

\* The signal arrives outside the SyncService calls: between two calls of
\* sync_job, or in the main loop (lines 280-282).
InterruptIdle ==
    /\ pc # "exited"
    /\ shutdown_requested' = signal_handler(shutdown_requested).shutdown_requested
    /\ pc' = "exited"
    /\ last' = [NoCall EXCEPT !.op = "idle_interrupted",
                              !.exc = signal_handler(shutdown_requested).raises]
    /\ UNCHANGED <<okta, users, teams, config, idx, desired_roles, tick, sync_status,
                   budget, touched, cur, done, exit_status, last_sync_timestamp>>
    /\ UNCHANGED component_vars

\* main(), lines 296-298 and signal_handler, line 78: the status the process
\* exits with when exc reaches the except clauses of main().  The
\* KeyboardInterrupt is caught and answered with sys.exit(0); the SystemExit
\* of sys.exit(1) is caught by no clause.
main_exit(exc) == IF exc = "SystemExit" THEN 1 ELSE 0

\* The KeyboardInterrupt of the first signal has reached main(): sys.exit(0).
MainExit ==
    /\ pc = "exited"
    /\ exit_status = {}
    /\ exit_status' = {main_exit("KeyboardInterrupt")}
    /\ UNCHANGED <<okta, users, teams, config, pc, idx, desired_roles, tick,
                   shutdown_requested, sync_status, budget, last, touched, cur, done,
                   last_sync_timestamp>>
    /\ UNCHANGED component_vars

\* Another signal arrives while the first one is being answered: the
\* exception the handler raises ends the process before main() reaches its
\* own sys.exit.
SecondSignal ==
    /\ pc = "exited"
    /\ exit_status = {}
    /\ LET h == signal_handler(shutdown_requested)
       IN  /\ shutdown_requested' = h.shutdown_requested
           /\ exit_status' = {main_exit(h.raises)}
           /\ last' = [NoCall EXCEPT !.op = "second_signal", !.exc = h.raises]
    /\ UNCHANGED <<okta, users, teams, config, pc, idx, desired_roles, tick,
                   sync_status, budget, touched, cur, done, last_sync_timestamp>>
    /\ UNCHANGED component_vars

NextSignals ==
    \/ RunSync
    \/ RolePass
    \/ AdminPass
    \/ InterruptSync
    \/ InterruptRoles
    \/ InterruptAdmin
    \/ InterruptIdle
    \/ MainExit
    \/ SecondSignal

SpecSignals == Init /\ [][NextSignals]_vars

TypeOK ==
    /\ okta \in [Groups -> SUBSET Ids]
    /\ DOMAIN users \subseteq Ids
    /\ \A id \in DOMAIN users : users[id] \in UserRecords
    /\ DOMAIN teams \subseteq TeamNames
    /\ \A t \in DOMAIN teams : teams[t] \subseteq DOMAIN users
    /\ pc \in {"sync", "roles", "admin", "exited"}
    /\ shutdown_requested \in BOOLEAN
    /\ exit_status \in {{}, {0}, {1}}
    /\ \A k \in DOMAIN sync_status :
            sync_status[k].status \in {"in_progress", "completed", "failed"}
    /\ idx \in 1..(Len(config.mappings) + 1)
    /\ DOMAIN desired_roles \subseteq LowerEmails(Ids)
    /\ tick \in 1..(MaxTicks + 1)
    /\ budget \in 0..MaxFaultyCalls

----------------------------------------------------------------------------
(* The clients and the collector on their own.  While one of them is       *)
(* studied, sync_job is not running: its variables stay as SyncParked      *)
(* leaves them.                                                            *)

SyncParked ==
    /\ okta = [g \in Groups |-> {}]
    /\ users = <<>>
    /\ teams = <<>>
    /\ config = [dry_run |-> FALSE, mappings |-> <<>>, admin_groups |-> <<>>]
    /\ pc = "sync"
    /\ idx = 1
    /\ desired_roles = <<>>
    /\ tick = 1
    /\ shutdown_requested = FALSE
    /\ sync_status = <<>>
    /\ budget = 0
    /\ last = NoCall
    /\ touched = [t \in TeamNames |-> [mapping |-> 0, clean |-> FALSE]]
    /\ cur = FreshTick
    /\ done = [FreshTick EXCEPT !.clean = FALSE] @@ [valid |-> FALSE, after_clean |-> FALSE]
    /\ exit_status = {}
    /\ last_sync_timestamp = <<>>

----------------------------------------------------------------------------
(* OktaClient._get, okta_client.py lines 341-377: one GET under the        *)
(* tenacity decorator retry_if_exception_type((RequestException,           *)
(* OktaRateLimitError)), stop_after_attempt(5).                            *)

\* What one attempt meets: the Authorization header cannot be built (the
\* token manager raised), the transport fails, or Okta answers.
AttemptOutcomes == {"token_error", "transport", "200", "401", "404", "429", "500"}

\* The exception one attempt ends with: _get_auth_header (line 361),
\* session.get (line 368) and _handle_response (lines 322-339).
attempt_exception(outcome) ==
    CASE outcome = "token_error" -> "OktaAuthenticationError"
      [] outcome = "transport"   -> "RequestException"
      [] outcome = "200"         -> "none"
      [] outcome = "401"         -> "OktaAuthenticationError"
      [] outcome = "404"         -> "OktaNotFoundError"
      [] outcome = "429"         -> "OktaRateLimitError"
      [] OTHER                   -> "OktaAPIError"

\* Whether the attempt sent a GET: session.get is reached only with a header.
sends_get(outcome) == outcome # "token_error"

retry_if_exception_type_any(exc) == exc # "none"

\* line 342
retry_if_exception_type(exc) == exc \in {"RequestException", "OktaRateLimitError"}

\* line 344
stop_after_attempt(attempt_number) == attempt_number >= 5

HttpIdle == [phase |-> "idle", attempts |-> <<>>, raised |-> "none"]

\* A caller enters _get.
GetCall ==
    /\ http.phase \in {"idle", "returned", "raised"}
    /\ http' = [phase |-> "calling", attempts |-> <<>>, raised |-> "none"]
    /\ UNCHANGED <<sync_vars, tm, mc, gs, pg>>

\* One attempt of the decorated function, and what tenacity does with it.
GetAttempt ==
    /\ http.phase = "calling"
    /\ \E outcome \in AttemptOutcomes :
          LET exc      == attempt_exception(outcome)
              attempts == Append(http.attempts, outcome)
          IN  http' =
                IF exc = "none"
                THEN [phase |-> "returned", attempts |-> attempts, raised |-> "none"]
                ELSE IF ~retry_if_exception_type(exc)
                THEN [phase |-> "raised", attempts |-> attempts, raised |-> exc]
                ELSE IF stop_after_attempt(Len(attempts))
                THEN [phase |-> "raised", attempts |-> attempts, raised |-> "RetryError"]
                ELSE [phase |-> "calling", attempts |-> attempts, raised |-> "none"]
    /\ UNCHANGED <<sync_vars, tm, mc, gs, pg>>

InitRetry ==
    /\ SyncParked
    /\ http = HttpIdle
    /\ tm = <<>> /\ mc = <<>> /\ gs = <<>> /\ pg = <<>>

NextRetry == GetCall \/ GetAttempt

SpecRetry == InitRetry /\ [][NextRetry]_vars

----------------------------------------------------------------------------
(* GrafanaClient.get_team_by_name, grafana_client.py lines 197-224.  A     *)
(* team name is a stem in a letter case, possibly followed by a suffix:    *)
(* "T1", "t1", "T1-x", "t1-x", ...  The search endpoint answers with teams *)
(* of any of these names, in any order.                                    *)

\* Teams at most in one answer of /api/teams/search.
MaxResults == 2

SearchName(stem, up, ext) == [stem |-> stem, upper |-> up, ext |-> ext]

SearchNames == {SearchName(st, up, ext) : st \in TeamNames, up \in BOOLEAN, ext \in BOOLEAN}

\* name contains part, letter case ignored
NameContains(name, part) ==
    /\ name.stem = part.stem
    /\ part.ext => name.ext

\* The answers: team objects with distinct ids, as a bare list or wrapped as
\* {"teams": [...]}.
SearchLists ==
    UNION {{[i \in 1..n |-> [id |-> i, name |-> f[i]]] : f \in [1..n -> SearchNames]} :
                n \in 0..MaxResults}

SearchAnswers ==
    {[shape |-> "dict", body |-> [teams |-> l]] : l \in SearchLists}
        \cup {[shape |-> "list", body |-> l] : l \in SearchLists}

\* lines 213-216: isinstance(teams, dict) and "teams" in teams
teams_list_of(answer) ==
    IF answer.shape = "dict" THEN answer.body.teams ELSE answer.body

name_matches_partially(name, team_name) == NameContains(name, team_name)

\* line 219: team.get("name") == team_name
name_matches(name, team_name) == name = team_name

\* lines 218-224: the first team of the list whose name matches, as <<team>>;
\* <<>> stands for None.
get_team_by_name(answer, team_name) ==
    LET teams_list == teams_list_of(answer)
        hits       == {i \in DOMAIN teams_list : name_matches(teams_list[i].name, team_name)}
    IN  IF hits = {} THEN <<>>
        ELSE <<teams_list[CHOOSE i \in hits : \A j \in hits : i <= j]>>

SearchIdle == [phase |-> "idle"]

\* One call: the name asked for, the answer of Grafana, the value returned.
GetTeamByName ==
    /\ gs.phase = "idle"
    /\ \E team_name \in SearchNames, answer \in SearchAnswers :
          gs' = [phase |-> "returned", team_name |-> team_name, answer |-> answer,
                 result |-> get_team_by_name(answer, team_name)]
    /\ UNCHANGED <<sync_vars, tm, http, mc, pg>>

InitSearch ==
    /\ SyncParked
    /\ gs = SearchIdle
    /\ tm = <<>> /\ http = <<>> /\ mc = <<>> /\ pg = <<>>

NextSearch == GetTeamByName

SpecSearch == InitSearch /\ [][NextSearch]_vars

----------------------------------------------------------------------------
(* OktaOAuthTokenManager, okta_client.py lines 33-252.  Threads call        *)
(* get_access_token; the body runs under self._lock.  Times are seconds;   *)
(* the clock moves in steps of ClockStep.  A token is named by the number  *)
(* of the token request that returned it; 0 stands for None.               *)

TokenThreads == {"t1", "t2"}

\* get_access_token calls of one execution, over all threads.
MaxTokenCalls == 2

\* Steps of the clock in one execution.
MaxClock == 2

ClockStep == 30

\* Lifetimes (expires_in) the token endpoint may grant.
ExpiresIn == {30, 120}

\* Answers to one token request: 200 with a lifetime, 401, another status,
\* or a transport error.
TokenAnswers ==
    {[status |-> "200", expires_in |-> e] : e \in ExpiresIn}
        \cup {[status |-> st, expires_in |-> 0] : st \in {"401", "500", "transport"}}

NoExpiry == -1

is_token_expired_no_margin(token_expiry, now) ==
    token_expiry = NoExpiry \/ now >= token_expiry

\* _is_token_expired, lines 90-101
is_token_expired(token_expiry, now) ==
    token_expiry = NoExpiry \/ now >= token_expiry - 60

\* line 83: self._access_token and not self._is_token_expired()
cached_token_usable(access_token, token_expiry, now) ==
    access_token # 0 /\ ~is_token_expired(token_expiry, now)

lock_is_free_always(lock) == TRUE

\* with self._lock, line 82
lock_is_free(lock) == lock = "free"

\* _refresh_token, lines 152-156: retried on RequestException, 5 attempts
refresh_retried(status, attempt_number) == status = "transport" /\ attempt_number < 5

FreshThread ==
    [pc |-> "idle", attempt |-> 0, at |-> -1, seen_token |-> 0, seen_expiry |-> NoExpiry,
     sent |-> 0, failed |-> FALSE, got |-> 0, issued_at |-> -1, issued_for |-> 0,
     overlap |-> FALSE, cold |-> FALSE]

TokenIdle ==
    [access_token |-> 0, token_expiry |-> NoExpiry, lock |-> "free", now |-> 0,
     posts |-> 0, calls |-> 0, th |-> [t \in TokenThreads |-> FreshThread]]

\* A thread calls get_access_token and waits for the lock.
TmCall ==
    /\ tm.calls < MaxTokenCalls
    /\ \E t \in TokenThreads :
          /\ tm.th[t].pc = "idle"
          /\ LET pending == {u \in TokenThreads : tm.th[u].pc # "idle"}
             IN  tm' = [tm EXCEPT
                    !.calls = @ + 1,
                    !.th = [u \in TokenThreads |->
                              IF u = t
                              THEN [FreshThread EXCEPT
                                      !.pc = "waiting",
                                      !.overlap = pending # {},
                                      !.cold = ~cached_token_usable(tm.access_token,
                                                        tm.token_expiry, tm.now)]
                              ELSE IF u \in pending THEN [@[u] EXCEPT !.overlap = TRUE]
                              ELSE @[u]]]
    /\ UNCHANGED <<sync_vars, http, mc, gs, pg>>

\* The thread gets the lock and looks at the cache (lines 82-88): a usable
\* token is returned and the lock released; else _refresh_token is entered.
TmEnter ==
    /\ \E t \in TokenThreads :
          /\ tm.th[t].pc = "waiting"
          /\ lock_is_free(tm.lock)
          /\ LET seen == [tm.th[t] EXCEPT !.at = tm.now,
                                          !.seen_token = tm.access_token,
                                          !.seen_expiry = tm.token_expiry]
             IN  IF cached_token_usable(tm.access_token, tm.token_expiry, tm.now)
                 THEN tm' = [tm EXCEPT !.th[t] = [seen EXCEPT !.pc = "idle",
                                                              !.got = tm.access_token]]
                 ELSE tm' = [tm EXCEPT !.lock = t,
                                       !.th[t] = [seen EXCEPT !.pc = "refresh",
                                                              !.attempt = 1]]
    /\ UNCHANGED <<sync_vars, http, mc, gs, pg>>

\* One attempt of _refresh_token (lines 157-252): the POST and its answer.
TmPost ==
    /\ \E t \in TokenThreads, answer \in TokenAnswers :
          /\ tm.th[t].pc = "refresh"
          /\ LET me    == [tm.th[t] EXCEPT !.sent = @ + 1]
                 token == tm.posts + 1
             IN  IF answer.status = "200"
                 THEN tm' = [tm EXCEPT
                                !.posts = @ + 1,
                                !.access_token = token,
                                !.token_expiry = tm.now + answer.expires_in,
                                !.lock = IF @ = t THEN "free" ELSE @,
                                !.th[t] = [me EXCEPT !.pc = "idle", !.got = token,
                                                     !.issued_at = tm.now,
                                                     !.issued_for = answer.expires_in]]
                 ELSE IF refresh_retried(answer.status, tm.th[t].attempt)
                 THEN tm' = [tm EXCEPT
                                !.posts = @ + 1,
                                !.th[t] = [me EXCEPT !.attempt = @ + 1, !.failed = TRUE]]
                 ELSE tm' = [tm EXCEPT
                                !.posts = @ + 1,
                                !.lock = IF @ = t THEN "free" ELSE @,
                                !.th[t] = [me EXCEPT !.pc = "idle", !.got = -1,
                                                     !.failed = TRUE]]
    /\ UNCHANGED <<sync_vars, http, mc, gs, pg>>

\* time.time() moves on.
TmTick ==
    /\ tm.now < MaxClock * ClockStep
    /\ tm' = [tm EXCEPT !.now = @ + ClockStep]
    /\ UNCHANGED <<sync_vars, http, mc, gs, pg>>

InitToken ==
    /\ SyncParked
    /\ tm = TokenIdle
    /\ http = <<>> /\ mc = <<>> /\ gs = <<>> /\ pg = <<>>

NextToken == TmCall \/ TmEnter \/ TmPost \/ TmTick

SpecToken == InitToken /\ [][NextToken]_vars

----------------------------------------------------------------------------
(* MetricsCollector, metrics_server.py lines 54-134, called from several   *)
(* threads.  self.sync_status maps a key to a dict object; the objects     *)
(* live in a heap and are named by their index in it.  Each writer thread  *)
(* records the start and the completion of one sync; the reader thread     *)
(* calls get_sync_status, as the /health handler does.                     *)

WriterThreads == {"w1", "w2"}

MetricKeys == {<<"G1", "T1">>, <<"G2", "T2">>}

\* get_sync_status calls of one execution.
MaxReads == 2

\* The dict object a record_sync_start call builds (lines 72-75).
start_entry(key) == record_sync_start(<<>>, key)[key]

\* The dict object a record_sync_complete call builds (lines 117-124).
complete_entry(key, errors) == record_sync_complete(<<>>, key, errors)[key]

\* self.sync_status[key] = {...}: a new object is bound to the key.
store_entry(refs, heap, key, entry) ==
    [refs |-> (key :> (Len(heap) + 1)) @@ refs, heap |-> Append(heap, entry)]

get_sync_status_aliasing(refs) == [copied |-> FALSE, refs |-> <<>>]

\* get_sync_status, lines 133-134: self.sync_status.copy(), a new dict with
\* the same objects.
get_sync_status(refs) == [copied |-> TRUE, refs |-> refs]

\* What a returned status shows when it is looked at while the collector
\* holds refs and heap.
StatusView(returned, refs, heap) ==
    LET r == IF returned.copied THEN returned.refs ELSE refs
    IN  [k \in DOMAIN r |-> heap[r[k]]]

CollectorIdle(k1, e1, k2, e2) ==
    [lock |-> "free", refs |-> <<>>, heap |-> <<>>, written |-> <<>>,
     th |-> [w \in WriterThreads |->
                [pc |-> "start", held |-> FALSE,
                 key |-> IF w = "w1" THEN k1 ELSE k2,
                 errors |-> IF w = "w1" THEN e1 ELSE e2]],
     reader |-> [held |-> FALSE, snaps |-> <<>>]]

\* with self.lock: a writer gets the lock.
WriterLock ==
    /\ \E w \in WriterThreads :
          /\ mc.th[w].pc \in {"start", "complete"}
          /\ ~mc.th[w].held
          /\ lock_is_free(mc.lock)
          /\ mc' = [mc EXCEPT !.lock = w, !.th[w].held = TRUE]
    /\ UNCHANGED <<sync_vars, tm, http, gs, pg>>

\* record_sync_start, lines 70-75, under the lock.
WriteStart ==
    /\ \E w \in WriterThreads :
          /\ mc.th[w].pc = "start" /\ mc.th[w].held
          /\ LET key == mc.th[w].key
                 st  == store_entry(mc.refs, mc.heap, key, start_entry(key))
             IN  mc' = [mc EXCEPT !.refs = st.refs, !.heap = st.heap,
                                  !.written = (key :> start_entry(key)) @@ @,
                                  !.lock = "free",
                                  !.th[w].held = FALSE, !.th[w].pc = "complete"]
    /\ UNCHANGED <<sync_vars, tm, http, gs, pg>>

\* record_sync_complete, lines 115-124, under the lock.
WriteComplete ==
    /\ \E w \in WriterThreads :
          /\ mc.th[w].pc = "complete" /\ mc.th[w].held
          /\ LET key   == mc.th[w].key
                 entry == complete_entry(key, mc.th[w].errors)
                 st    == store_entry(mc.refs, mc.heap, key, entry)
             IN  mc' = [mc EXCEPT !.refs = st.refs, !.heap = st.heap,
                                  !.written = (key :> entry) @@ @,
                                  !.lock = "free",
                                  !.th[w].held = FALSE, !.th[w].pc = "done"]
    /\ UNCHANGED <<sync_vars, tm, http, gs, pg>>

\* get_sync_status, line 133: the reader gets the lock.
ReaderLock ==
    /\ Len(mc.reader.snaps) < MaxReads
    /\ ~mc.reader.held
    /\ lock_is_free(mc.lock)
    /\ mc' = [mc EXCEPT !.lock = "reader", !.reader.held = TRUE]
    /\ UNCHANGED <<sync_vars, tm, http, gs, pg>>

\* get_sync_status, line 134: the copy is returned and the lock released.
\* seen is what the returned status shows at that moment.
ReaderCopy ==
    /\ mc.reader.held
    /\ LET returned == get_sync_status(mc.refs)
       IN  mc' = [mc EXCEPT
                    !.lock = "free",
                    !.reader.held = FALSE,
                    !.reader.snaps = Append(@, [returned |-> returned,
                                                seen |-> StatusView(returned, mc.refs,
                                                                    mc.heap)])]
    /\ UNCHANGED <<sync_vars, tm, http, gs, pg>>

InitMetrics ==
    /\ SyncParked
    /\ \E k1 \in MetricKeys, k2 \in MetricKeys, e1 \in 0..1, e2 \in 0..1 :
            mc = CollectorIdle(k1, e1, k2, e2)
    /\ tm = <<>> /\ http = <<>> /\ gs = <<>> /\ pg = <<>>

NextMetrics == WriterLock \/ WriteStart \/ WriteComplete \/ ReaderLock \/ ReaderCopy

SpecMetrics == InitMetrics /\ [][NextMetrics]_vars

----------------------------------------------------------------------------
(* OktaClient._get_paginated on its own (okta_client.py lines 379-444).    *)
(* Okta serves a collection as pages; the Link header of a page names the  *)
(* page after it by a cursor: <url?after=cursor>; rel="next".              *)

\* Pages of the collection that is read.
MaxPages == 3

\* Requests after which a run that goes round a cycle of pages is left.
MaxFetches == MaxPages + 2

PagedEndpoint == "/api/v1/groups/00g123/users"

\* One entry of a Link header, in Okta's format: <url>; rel="...".
Link(cursor, rel) == [url |-> [path |-> PagedEndpoint, after |-> cursor], rel |-> rel]

\* The Link header of a page: rel="self" first when the server sends it,
\* then rel="next" when a page follows (next = 0: none).
LinkHeader(i, self_links, next) ==
    (IF self_links THEN <<Link(i, "self")>> ELSE <<>>)
        \o (IF next = 0 THEN <<>> ELSE <<Link(next, "next")>>)

\* A collection of n pages: page i holds one user, the page at empty none,
\* and names the page next[i] as the one after it.
PagesOf(n, self_links, empty, next) ==
    [i \in 1..n |-> [results |-> IF i = empty THEN <<>> ELSE <<[id |-> i]>>,
                     links   |-> LinkHeader(i, self_links, next[i])]]

\* Every chain of next links over at most MaxPages pages, the endless ones
\* included.
PageSets ==
    UNION {{PagesOf(n, self_links, empty, next) :
                self_links \in BOOLEAN, empty \in 0..n, next \in [1..n -> 0..n]} :
            n \in 1..MaxPages}

parse_next_link_first_entry(link_header) ==
    IF link_header = <<>> THEN <<>>
    ELSE IF link_header[1].rel = "next" THEN <<link_header[1].url>>
    ELSE <<>>

\* _parse_next_link, lines 422-444: the url of the first entry whose second
\* part holds rel="next"; <<>> stands for None.
parse_next_link(link_header) ==
    LET hits == {i \in DOMAIN link_header : link_header[i].rel = "next"}
    IN  IF hits = {} THEN <<>>
        ELSE <<link_header[CHOOSE i \in hits : \A j \in hits : i <= j].url>>

\* lines 409-416: urlparse and parse_qs split the link into the path and the
\* query parameters of the next request.
request_of(url) == [endpoint |-> url.path, after |-> url.after]

\* The page Okta answers a request with: the first one without a cursor.
served_page(request) == IF request.after = 0 THEN 1 ELSE request.after

PagesIdle(pages) ==
    [phase |-> "idle", pages |-> pages, request |-> [endpoint |-> PagedEndpoint, after |-> 0],
     all_results |-> <<>>, fetched |-> <<>>]

\* A caller enters _get_paginated (lines 392-394).
PagedCall ==
    /\ pg.phase = "idle"
    /\ pg' = [pg EXCEPT !.phase = "fetching"]
    /\ UNCHANGED <<sync_vars, tm, http, mc, gs>>

\* One turn of the while loop (lines 396-416): the page is fetched and its
\* results appended, then the loop ends or goes on with the next link.  The
\* exception of a _get that gave up leaves _get_paginated.
PagedFetch ==
    /\ pg.phase = "fetching"
    /\ Len(pg.fetched) < MaxFetches
    /\ \E ok \in BOOLEAN :
          IF ~ok
          THEN pg' = [pg EXCEPT !.phase = "raised"]
          ELSE LET i         == served_page(pg.request)
                   response  == pg.pages[i]
                   next_link == parse_next_link(response.links)
               IN  pg' = [pg EXCEPT
                            !.all_results = @ \o response.results,
                            !.fetched = Append(@, i),
                            !.phase = IF next_link = <<>> THEN "returned" ELSE "fetching",
                            !.request = IF next_link = <<>> THEN @
                                        ELSE request_of(next_link[1])]
    /\ UNCHANGED <<sync_vars, tm, http, mc, gs>>

InitPages ==
    /\ SyncParked
    /\ \E pages \in PageSets : pg = PagesIdle(pages)
    /\ tm = <<>> /\ http = <<>> /\ mc = <<>> /\ gs = <<>>

NextPages == PagedCall \/ PagedFetch

\* The loop runs on the thread that called it: a turn that can be taken is
\* taken.
SpecPages == InitPages /\ [][NextPages]_vars /\ WF_vars(PagedFetch)

----------------------------------------------------------------------------
(* Properties *)

IdOf(email) == email.name

DistinctTeams ==
    \A i, j \in DOMAIN config.mappings :
        i # j => config.mappings[i].grafana_team # config.mappings[j].grafana_team

\* The highest role of a non-empty set of roles.
MaxRoleOf(S) == CHOOSE r \in S : \A q \in S : RoleRank(r) >= RoleRank(q)

\* The mappings, other than those of skip, whose Okta group contains id.
MappingsOf(id, skip) ==
    {i \in (DOMAIN config.mappings) \ skip : id \in okta[config.mappings[i].okta_group]}

ExpectedDesired(skip) ==
    [e \in LowerEmails({id \in Ids : MappingsOf(id, skip) # {}}) |->
        MaxRoleOf({config.mappings[i].grafana_role : i \in MappingsOf(IdOf(e), skip)})]

\* A tick has completed in live mode without any port failure, right after
\* a tick that completed without any port failure.
SecondCleanTick ==
    done.valid /\ done.after_clean /\ done.clean /\ ~config.dry_run

C3_DesiredIsMax ==
    pc = "roles" => desired_roles = ExpectedDesired({})

\* C3 (amended): when the membership phase of a tick ends, desired_roles maps
\* every member of the group of a mapping that did not abort to the highest
\* target role of the non-aborted mappings whose group contains it, whether
\* or not the member was added or removed.
C3_DesiredIsMaxOfCompleted ==
    pc = "roles" => desired_roles = ExpectedDesired(cur.aborted)

C3_Witness ==
    /\ pc = "roles" /\ cur.aborted = {}
    /\ Len(config.mappings) = 2
    /\ config.mappings[1].grafana_role # config.mappings[2].grafana_role
    /\ "alice" \in okta[config.mappings[1].okta_group]
    /\ "alice" \in okta[config.mappings[2].okta_group]
    /\ last.to_add = {} /\ last.to_remove = {}

RolesAreHighest ==
    \A id \in DOMAIN users :
        MappingsOf(id, {}) # {}
            => users[id].role =
                    MaxRoleOf({config.mappings[i].grafana_role : i \in MappingsOf(id, {})})

C5_DryRunIssuesNoMutation ==
    config.dry_run => last.calls = {}

TwinAgrees ==
    /\ last.twin.users_added = last.metrics.users_added
    /\ last.twin.users_removed = last.metrics.users_removed
    /\ last.twin.count = last.count

C7_PartialFailureIsolation ==
    (last.op = "sync" /\ last.faults.abort = "none") =>
        LET t      == config.mappings[last.mapping].grafana_team
            k      == Cardinality(last.faults.lookup \cup last.faults.add)
            j      == Cardinality(last.faults.remove)
            addOk  == {e \in last.to_add : e \notin last.faults.lookup \cup last.faults.add
                                            /\ e \notin last.faults.rejected
                                            /\ IdOf(e) \in DOMAIN users}
            remOk  == last.to_remove \ last.faults.remove
        IN  /\ ~last.raised
            /\ last.metrics.errors = k + j
            /\ last.metrics.users_added = Cardinality(addOk)
            /\ last.metrics.users_removed = Cardinality(remOk)
            /\ ~config.dry_run =>
                    /\ \A e \in addOk : IdOf(e) \in teams[t]
                    /\ \A e \in remOk : IdOf(e) \notin teams[t]

C7_Witness ==
    /\ last.op = "sync" /\ last.faults.abort = "none"
    /\ last.faults.lookup \cup last.faults.add # {}
    /\ last.metrics.users_added > 0
    /\ last.metrics.errors > 0

\* C8: toAdd is the source emails minus the team emails and toRemove the
\* team emails minus the source emails, both lower-cased; the two are
\* disjoint, whatever the order and the repetitions of the two member lists.
C8_SetDiff ==
    (last.op = "sync" /\ last.faults.abort = "none") =>
        /\ last.to_add = LowerEmails(last.src \ last.pre)
        /\ last.to_remove = LowerEmails(last.pre \ last.src)
        /\ last.to_add \cap last.to_remove = {}

C8_Witness ==
    /\ last.op = "sync" /\ last.faults.abort = "none"
    /\ last.to_add # {} /\ last.to_remove # {}

\* C9: a source member whose email equals the email of a team member up to
\* letter case is in neither toAdd nor toRemove, in any letter case.
C9_CaseInsensitive ==
    (last.op = "sync" /\ last.faults.abort = "none") =>
        \A id \in last.src \cap last.pre : \A up \in BOOLEAN :
            Email(id, up) \notin last.to_add \cup last.to_remove

C9_Witness ==
    /\ last.op = "sync" /\ last.faults.abort = "none"
    /\ \E id \in last.src \cap last.pre : OktaEmail(id) # GrafanaEmail(id)

\* C10: when the source member fetch, the team get-or-create or the team
\* member fetch fails, sync_group_to_team raises and issues no add-member and
\* no remove-member call: the team's members are those before the call.
C10_AbortRaises ==
    (last.op = "sync" /\ last.faults.abort # "none") =>
        /\ last.raised
        /\ \A c \in last.calls : c.op \notin {"add_user_to_team", "remove_user_from_team"}
        /\ TeamMembers(teams, config.mappings[last.mapping].grafana_team) = last.pre

C10_Witness ==
    /\ last.op = "sync" /\ last.faults.abort = "team_search"
    /\ last.raised
    /\ last.src # last.pre

----------------------------------------------------------------------------
(* Run status, orchestration and shutdown *)

LastKey == StatusKey(config.mappings[last.mapping])

LastTeam == TeamMembers(teams, config.mappings[last.mapping].grafana_team)

AllMappings == DOMAIN config.mappings

\* C11 (as claimed): every sync_group_to_team call that recorded a sync start
\* has recorded a completion when control leaves it, and when it leaves by
\* raising (a port failure or the interrupt of a shutdown signal) the
\* completion carries at least one error: the status is "failed", never
\* "completed" or "in_progress".
C11_CompletionOnEveryExit ==
    last.op \in {"sync", "sync_interrupted"} =>
        /\ LastKey \in DOMAIN sync_status
        /\ sync_status[LastKey].status \in {"completed", "failed"}
        /\ (last.raised \/ last.op = "sync_interrupted")
                => /\ sync_status[LastKey].errors >= 1
                   /\ sync_status[LastKey].status = "failed"

\* C11 (the calls no signal cuts short): every sync_group_to_team call that
\* recorded a sync start and runs to its own exit has recorded a completion, with
\* the error count it returns or raises with, when control leaves it; when
\* it leaves by raising, the error count is at least 1 and the status is
\* "failed".
C11_CompletionUnlessInterrupted ==
    last.op = "sync" =>
        /\ LastKey \in DOMAIN sync_status
        /\ sync_status[LastKey].status \in {"completed", "failed"}
        /\ sync_status[LastKey].errors = last.metrics.errors
        /\ last.raised => /\ sync_status[LastKey].errors >= 1
                          /\ sync_status[LastKey].status = "failed"

C11_Witness ==
    /\ last.op = "sync" /\ last.raised
    /\ last.abort = "members"
    /\ sync_status[LastKey].status = "failed"

\* C12: an exception of one mapping's sync_group_to_team is absorbed by
\* run_sync: the for loop goes on with the next mapping, every mapping of
\* the tick is reconciled, and the ticks that follow run.
C12_FailureAbsorbed ==
    /\ (last.op = "sync" /\ last.raised)
            => /\ pc = (IF last.mapping = Len(config.mappings) THEN "roles" ELSE "sync")
               /\ idx = last.mapping + 1
    /\ pc \in {"roles", "admin"} => cur.ran = AllMappings
    /\ done.valid => done.ran = AllMappings

C12_Witness ==
    /\ tick = 2 /\ done.valid
    /\ done.aborted = {1} /\ done.ran = {1, 2}
    /\ last.op = "sync" /\ ~last.raised

\* C13: within one tick the role pass starts only after the run_sync of the
\* last mapping has returned, and the admin pass only after the role pass
\* has returned (or was skipped because no role is desired); once the role
\* pass has run, the tick issues no add-member or remove-member call.
C13_PhaseOrder ==
    /\ last.op = "roles" => cur.ran = AllMappings /\ cur.roles = "done"
    /\ last.op \in {"admin", "admin_skipped"}
            => done.ran = AllMappings /\ done.roles \in {"done", "skipped"}
    /\ last.op = "sync" => cur.roles = "pending" /\ cur.ran = 1..last.mapping

C13_Witness ==
    /\ last.op = "admin" /\ last.calls # {}
    /\ Len(config.mappings) = 2
    /\ done.roles = "done" /\ ~done.no_updates /\ ~done.add_empty

\* C14 (as claimed): a shutdown signal that arrives while a mapping is being
\* reconciled does not interrupt it: in live mode every toAdd identity that
\* has a Grafana user is in the team and no toRemove identity is.
C14_SignalDoesNotInterrupt ==
    (last.op = "sync_interrupted" /\ ~config.dry_run) =>
        /\ \A e \in last.to_add : IdOf(e) \in DOMAIN users => IdOf(e) \in LastTeam
        /\ \A e \in last.to_remove : IdOf(e) \notin LastTeam

\* C14 (amended): a shutdown signal that arrives while a mapping is being
\* reconciled interrupts it: the identities the add and remove loops have
\* not reached stay as they were, the ones already handled stay handled, no
\* other SyncService call follows and the process exits.
C14_SignalInterruptsMapping ==
    /\ shutdown_requested => pc = "exited"
    /\ (last.op = "sync_interrupted" /\ ~config.dry_run) =>
            /\ \A e \in last.to_add \ (last.cut.added \cup last.cut.inflight) :
                    IdOf(e) \notin LastTeam
            /\ \A e \in last.to_remove \ (last.cut.removed \cup last.cut.inflight) :
                    IdOf(e) \in LastTeam
            /\ \A e \in last.cut.added : IdOf(e) \in DOMAIN users => IdOf(e) \in LastTeam
            /\ \A e \in last.cut.removed : IdOf(e) \notin LastTeam

C14_Witness ==
    /\ last.op = "sync_interrupted" /\ ~config.dry_run
    /\ last.cut.at = "loops"
    /\ \E e \in last.cut.added : IdOf(e) \in LastTeam
    /\ \E e \in last.to_add \ (last.cut.added \cup last.cut.inflight) :
            IdOf(e) \in DOMAIN users /\ IdOf(e) \notin LastTeam

----------------------------------------------------------------------------
(* Admin sweep and role pass *)

\* The identities of the admin groups other than those of skip.
AdminUnion(skip) == UNION {okta[g] : g \in Range(config.admin_groups) \ skip}

\* The roster identities whose admin flag differs from membership of S.
FlagDiffers(S) ==
    {id \in DOMAIN last.users_pre : last.users_pre[id].isGrafanaAdmin # (id \in S)}

AdminCallsTo(id) == {c \in last.calls : c.op = "set_user_admin_permission" /\ c.target = id}

\* C15 (as claimed): in a live sync_admin_privileges call with admin groups,
\* every roster identity whose flag differs from membership of the union of
\* the admin groups gets exactly one set-admin call, with that membership as
\* value, the others get none, and the count returned is the number of
\* identities whose flag differed.
C15_AdminSweep ==
    (last.op = "admin" /\ ~config.dry_run) =>
        /\ \A id \in DOMAIN last.users_pre :
                AdminCallsTo(id) =
                    IF id \in FlagDiffers(AdminUnion({}))
                    THEN {Call("set_user_admin_permission", id, id \in AdminUnion({}))}
                    ELSE {}
        /\ last.count = Cardinality(FlagDiffers(AdminUnion({})))

\* C15 (amended): in a live sync_admin_privileges call with admin groups
\* whose roster fetch succeeds, every roster identity whose flag differs
\* from membership of the union of the admin groups whose lookup succeeded
\* gets exactly one set-admin call, with that membership as value, the
\* others get none, and the count returned is the number of identities
\* whose flag differed and whose set-admin call did not fail.
C15_AdminSweepOfFetched ==
    (last.op = "admin" /\ ~config.dry_run /\ ~last.afaults.roster) =>
        LET S == AdminUnion(last.afaults.groups)
        IN  /\ \A id \in DOMAIN last.users_pre :
                    AdminCallsTo(id) =
                        IF id \in FlagDiffers(S)
                        THEN {Call("set_user_admin_permission", id, id \in S)}
                        ELSE {}
            /\ \A c \in last.calls : c.target \in DOMAIN last.users_pre
            /\ last.count = Cardinality(FlagDiffers(S) \ last.afaults.set)

C15_Witness ==
    /\ last.op = "admin" /\ ~config.dry_run /\ ~last.afaults.roster
    /\ \E id \in DOMAIN users : users[id].isGrafanaAdmin /\ ~last.users_pre[id].isGrafanaAdmin
    /\ \E id \in DOMAIN users : ~users[id].isGrafanaAdmin /\ last.users_pre[id].isGrafanaAdmin
    /\ last.count = 2

\* C16: when the lookup of an admin group fails, sync_admin_privileges
\* returns normally and sweeps the roster against the union of the groups
\* whose lookup succeeded: in live mode every identity whose set-admin call
\* did not fail holds the flag that union gives it, and the count is the
\* number of flags changed (to change, in dry-run mode).
C16_AdminGroupFailureTolerated ==
    (last.op = "admin" /\ last.afaults.groups # {} /\ ~last.afaults.roster) =>
        LET S == AdminUnion(last.afaults.groups)
        IN  /\ pc = "sync"
            /\ DOMAIN users = DOMAIN last.users_pre
            /\ \A id \in DOMAIN users :
                    users[id].isGrafanaAdmin =
                        IF config.dry_run \/ id \in last.afaults.set
                        THEN last.users_pre[id].isGrafanaAdmin
                        ELSE id \in S
            /\ last.failed = FlagDiffers(S) \cap last.afaults.set
            /\ last.count = Cardinality(FlagDiffers(S) \ last.failed)

C16_Witness ==
    /\ last.op = "admin" /\ ~config.dry_run /\ ~last.afaults.roster
    /\ last.afaults.groups # {}
    /\ Range(config.admin_groups) \ last.afaults.groups # {}
    /\ \E id \in AdminUnion(last.afaults.groups) :
            /\ id \in DOMAIN users
            /\ users[id].isGrafanaAdmin /\ ~last.users_pre[id].isGrafanaAdmin

\* The desired identities update_user_roles found in Grafana.
RoleFound == {e \in (DOMAIN desired_roles) \ last.rfaults.lookup :
                    IdOf(e) \in DOMAIN last.users_pre}

RoleDiffers(S) == {e \in S : last.users_pre[IdOf(e)].role # desired_roles[e]}

RoleCalls == {c \in last.calls : c.op = "update_user_role"}

\* C17 (as claimed): update_user_roles issues a role update for an identity
\* exactly when its current role is not literally equal to the desired one,
\* and returns the number of identities whose role differed.
C17_RoleUpdateIffDiffers ==
    last.op = "roles" =>
        LET known == {e \in DOMAIN desired_roles : IdOf(e) \in DOMAIN last.users_pre}
        IN  /\ RoleCalls = {Call("update_user_role", IdOf(e), desired_roles[e]) :
                                e \in RoleDiffers(known)}
            /\ last.count = Cardinality(RoleDiffers(known))

\* C17 (amended): in live mode update_user_roles issues a role update for an
\* identity whose lookup succeeded exactly when its current role is not
\* literally equal to the desired one, also when the current role outranks
\* the desired one (the role is then lowered); in dry-run mode it issues
\* none.  In both modes the count returned is the number of identities
\* whose lookup succeeded, whose role differed and whose update did not fail.
C17_RoleUpdateIffDiffersWhenFound ==
    last.op = "roles" =>
        /\ RoleCalls = IF config.dry_run THEN {}
                       ELSE {Call("update_user_role", IdOf(e), desired_roles[e]) :
                                e \in RoleDiffers(RoleFound)}
        /\ last.calls = RoleCalls
        /\ last.count = Cardinality(RoleDiffers(RoleFound) \ last.rfaults.update)
        /\ ~config.dry_run =>
                \A e \in RoleDiffers(RoleFound) \ last.rfaults.update :
                    users[IdOf(e)].role = desired_roles[e]

C17_Witness ==
    /\ last.op = "roles" /\ ~config.dry_run
    /\ \E e \in RoleFound :
            /\ RoleRank(last.users_pre[IdOf(e)].role) > RoleRank(desired_roles[e])
            /\ users[IdOf(e)].role = desired_roles[e]
            /\ Call("update_user_role", IdOf(e), desired_roles[e]) \in last.calls

\* C18: in update_user_roles an identity not found in Grafana is skipped
\* without error, and an exception while processing one identity is
\* swallowed: the call returns, every other identity is processed (in live
\* mode it holds its desired role afterwards), the failed and the missing
\* ones are left as they were and are not counted.
C18_RoleErrorsSwallowed ==
    last.op = "roles" =>
        LET bad  == last.rfaults.lookup \cup last.rfaults.update
            rest == {e \in (DOMAIN desired_roles) \ bad : IdOf(e) \in DOMAIN last.users_pre}
        IN  /\ pc = "admin"
            /\ last.failed = bad
            /\ DOMAIN users = DOMAIN last.users_pre
            /\ ~config.dry_run => \A e \in rest : users[IdOf(e)].role = desired_roles[e]
            /\ \A e \in bad : IdOf(e) \in DOMAIN users
                                    => users[IdOf(e)] = last.users_pre[IdOf(e)]
            /\ last.count = Cardinality(RoleDiffers(rest))

C18_Witness ==
    /\ last.op = "roles" /\ ~config.dry_run
    /\ last.rfaults.update # {}
    /\ last.count > 0
    /\ \E e \in last.rfaults.update : users[IdOf(e)].role # desired_roles[e]

\* The injective sequences over the mapping indices.
MappingOrders ==
    {o \in [AllMappings -> AllMappings] : \A i, j \in AllMappings : i # j => o[i] # o[j]}

\* desired_roles after the sync_group_to_team calls of the first n mappings
\* of order o; the calls of the mappings of skip raise before lines 122-126.
RECURSIVE DesiredAfter(_, _, _)
DesiredAfter(o, n, skip) ==
    IF n = 0 THEN <<>>
    ELSE LET m == config.mappings[o[n]]
             d == DesiredAfter(o, n - 1, skip)
         IN  IF o[n] \in skip THEN d
             ELSE track_desired_roles(d, LowerEmails(okta[m.okta_group]), m.grafana_role)

\* C19: the desired_roles of a tick, and so the roles its role pass applies,
\* are the same for every order of the configured mappings.
C19_OrderIndependent ==
    pc = "roles" =>
        \A o \in MappingOrders :
            /\ DesiredAfter(o, Len(config.mappings), cur.aborted) = desired_roles
            /\ update_user_roles(users, DesiredAfter(o, Len(config.mappings), cur.aborted),
                                 config.dry_run, NoRoleFaults).users
                    = update_user_roles(users, desired_roles, config.dry_run,
                                        NoRoleFaults).users

C19_Witness ==
    /\ pc = "roles" /\ cur.aborted = {}
    /\ Len(config.mappings) = 2
    /\ config.mappings[1].grafana_role = "Admin"
    /\ config.mappings[2].grafana_role = "Editor"
    /\ \E id \in okta[config.mappings[1].okta_group] \cap okta[config.mappings[2].okta_group] :
            desired_roles[lower(OktaEmail(id))] = "Admin"

\* C20: every tick starts with an empty desired_roles: at the role pass it
\* holds only members of the groups of the mappings that this tick
\* reconciled without aborting, whatever the tick before recorded.
C20_DesiredRolesPerTick ==
    /\ (pc = "sync" /\ idx = 1) => desired_roles = <<>>
    /\ pc = "roles" =>
            \A e \in DOMAIN desired_roles :
                \E i \in cur.ran \ cur.aborted : IdOf(e) \in okta[config.mappings[i].okta_group]

C20_Witness ==
    /\ tick = 2 /\ pc = "roles"
    /\ done.valid /\ done.aborted = {}
    /\ cur.aborted # {}
    /\ \E i \in cur.aborted : \E id \in okta[config.mappings[i].okta_group] :
            lower(OktaEmail(id)) \notin DOMAIN desired_roles

----------------------------------------------------------------------------
(* Metrics *)

\* C29: the gots_last_sync_timestamp gauge of a mapping holds the time of
\* that mapping's last successful sync: a sync_group_to_team call that
\* finished with errors leaves the gauge at another time than its own.
C29_TimestampOfLastSuccess ==
    (last.op = "sync" /\ last.metrics.errors > 0) =>
        \/ LastKey \notin DOMAIN last_sync_timestamp
        \/ last_sync_timestamp[LastKey] #
                SyncTime(tick, last.mapping, Len(config.mappings))

----------------------------------------------------------------------------
(* Frame of the SyncService calls *)

C22_EmptyAdminListShortCircuits ==
    last.op \in {"admin", "admin_skipped"} =>
        /\ last.empty.count = 0
        /\ last.empty.reads = {}
        /\ last.empty.calls = {}
        /\ last.empty.users = last.users_pre

C22_Witness ==
    /\ last.op = "admin" /\ ~config.dry_run
    /\ last.calls # {} /\ last.reads # {}
    /\ \E id \in DOMAIN last.users_pre : last.users_pre[id].isGrafanaAdmin
    /\ last.empty.count = 0 /\ last.empty.reads = {}

----------------------------------------------------------------------------
(* Shutdown *)

FirstSignalOps ==
    {"sync_interrupted", "roles_interrupted", "admin_interrupted", "idle_interrupted"}

\* C27: the first shutdown signal sets the shutdown flag and raises
\* KeyboardInterrupt, which ends sync_job; a signal received once the flag
\* is set raises the SystemExit of sys.exit(1), and the process exits with
\* status 1; without a second signal the status is 0.
C27_SecondSignalForcesExit ==
    /\ last.op \in FirstSignalOps =>
            /\ shutdown_requested
            /\ last.exc = "KeyboardInterrupt"
            /\ pc = "exited"
            /\ exit_status \in {{}, {0}}
    /\ last.op = "second_signal" =>
            /\ shutdown_requested
            /\ last.exc = "SystemExit"
            /\ exit_status = {1}
    /\ exit_status # {} => shutdown_requested

C27_Witness ==
    /\ last.op = "second_signal"
    /\ exit_status = {1}
    /\ tick = 2
    /\ sync_status # <<>>

\* C30: once the shutdown flag is set, sync_job has been left: the last
\* SyncService call is the one the signal interrupted (or none), no mapping,
\* role pass or admin pass is started after it, and a role pass is only ever
\* applied to the desired roles of a tick whose mappings have all run.
C30_NothingStartsAfterShutdown ==
    /\ shutdown_requested =>
            /\ last.op \in FirstSignalOps \cup {"second_signal"}
            /\ pc = "exited"
    /\ last.op \in {"roles", "roles_interrupted"} => cur.ran = AllMappings
    /\ last.op = "sync_interrupted" => cur.roles = "pending"

C30_Witness ==
    /\ shutdown_requested
    /\ last.op = "sync_interrupted" /\ last.cut.at = "loops"
    /\ Len(config.mappings) = 2 /\ last.mapping = 1
    /\ desired_roles # <<>>
    /\ exit_status = {0}

----------------------------------------------------------------------------
(* OktaClient._get *)

GetsSent == {i \in DOMAIN http.attempts : sends_get(http.attempts[i])}

LastOutcome == http.attempts[Len(http.attempts)]

\* C26: one _get call makes at most 5 attempts and sends at most 5 GETs;
\* every attempt but the last ended with a transport error or a 429; the
\* call gives up with an error when the 5th attempt ends that way; a 401, a
\* 404 or another API error is raised to the caller by the attempt that met
\* it, without another attempt; a 200 returns.
C26_BoundedRetry ==
    /\ Len(http.attempts) <= 5
    /\ Cardinality(GetsSent) <= 5
    /\ \A i \in DOMAIN http.attempts :
            i < Len(http.attempts) => http.attempts[i] \in {"transport", "429"}
    /\ http.phase = "calling" => \A i \in DOMAIN http.attempts :
                                        http.attempts[i] \in {"transport", "429"}
    /\ http.phase = "raised" =>
            IF LastOutcome \in {"transport", "429"}
            THEN Len(http.attempts) = 5 /\ http.raised = "RetryError"
            ELSE /\ LastOutcome \in {"token_error", "401", "404", "500"}
                 /\ http.raised = attempt_exception(LastOutcome)
    /\ http.phase = "returned" => LastOutcome = "200"

C26_Witness ==
    /\ http.phase = "raised"
    /\ http.attempts = <<"transport", "429", "429", "transport", "429">>
    /\ http.raised = "RetryError"

----------------------------------------------------------------------------
(* GrafanaClient.get_team_by_name *)

AnswerTeams == teams_list_of(gs.answer)

AnswerNames == {AnswerTeams[i].name : i \in DOMAIN AnswerTeams}

\* C23: get_team_by_name returns a team only when its name equals the
\* requested name, letter case included, and then the first such team of
\* the answer; when no team of the answer has exactly that name (the names
\* only contain it, or differ in case) it returns None.
C23_ExactNameOnly ==
    gs.phase = "returned" =>
        /\ \A i \in DOMAIN gs.result :
                /\ gs.result[i].name = gs.team_name
                /\ \E j \in DOMAIN AnswerTeams : AnswerTeams[j] = gs.result[i]
        /\ (gs.team_name \notin AnswerNames) <=> (gs.result = <<>>)
        /\ Len(gs.result) <= 1

C23_Witness ==
    /\ gs.phase = "returned"
    /\ gs.result = <<>>
    /\ Len(AnswerTeams) = 2
    /\ gs.answer.shape = "dict"
    /\ \A n \in AnswerNames : NameContains(n, gs.team_name) /\ n # gs.team_name
    /\ \E n \in AnswerNames : n.ext /\ ~gs.team_name.ext
    /\ \E n \in AnswerNames : n.upper # gs.team_name.upper

----------------------------------------------------------------------------
(* OktaOAuthTokenManager *)

\* The calls of t and u overlapped, both were made while the manager held no
\* usable token, and both have returned or raised.
Batch(t, u) ==
    /\ t # u
    /\ \A v \in {t, u} : /\ tm.th[v].pc = "idle" /\ tm.th[v].at >= 0
                         /\ tm.th[v].overlap /\ tm.th[v].cold

\* No token request of the batch failed, and every token the batch obtained
\* was more than 60 seconds from its expiry when each caller looked at the
\* cache.
BatchSmooth(t, u) ==
    \A v \in {t, u} :
        /\ ~tm.th[v].failed
        /\ \A w \in {t, u} :
                tm.th[w].issued_at >= 0 =>
                    tm.th[v].at < tm.th[w].issued_at + tm.th[w].issued_for - 60

OneRequestSameToken(t, u) ==
    /\ tm.th[t].sent + tm.th[u].sent = 1
    /\ tm.th[t].got = tm.th[u].got
    /\ tm.th[t].got > 0

SawUsableToken(t) ==
    /\ tm.th[t].seen_token # 0
    /\ tm.th[t].at < tm.th[t].seen_expiry - 60

\* C25: a get_access_token call that finds a cached token while the time is
\* more than 60 seconds before the cached expiry returns that token and
\* sends no token request; a call that finds the time at or past that point
\* (or no token) goes on to send a token request.
C25_CachedUntilMargin ==
    \A t \in TokenThreads :
        tm.th[t].at >= 0 =>
            IF SawUsableToken(t)
            THEN /\ tm.th[t].pc = "idle"
                 /\ tm.th[t].sent = 0
                 /\ tm.th[t].got = tm.th[t].seen_token
            ELSE \/ tm.th[t].pc = "refresh" /\ tm.th[t].sent = tm.th[t].attempt - 1
                 \/ tm.th[t].pc = "idle" /\ tm.th[t].sent >= 1

C25_Witness ==
    \E t \in TokenThreads :
        /\ tm.th[t].seen_token # 0
        /\ tm.th[t].at = tm.th[t].seen_expiry - 60
        /\ tm.th[t].pc = "idle" /\ tm.th[t].sent = 1
        /\ tm.th[t].got > tm.th[t].seen_token

----------------------------------------------------------------------------
(* MetricsCollector *)

WritersDone == \A w \in WriterThreads : mc.th[w].pc = "done"

\* C28: record_sync_start and record_sync_complete calls of several threads,
\* interleaved with get_sync_status reads, lose no update: the status map
\* holds, for every key written so far, the last entry written for it, and
\* no other key; once all writers are done every entry is a completion
\* entry of a writer of that key; and every status a read returned still
\* shows what it showed when it was returned.
C28_NoLostUpdate ==
    /\ DOMAIN mc.refs = DOMAIN mc.written
    /\ \A k \in DOMAIN mc.refs : mc.heap[mc.refs[k]] = mc.written[k]
    /\ WritersDone =>
            /\ DOMAIN mc.refs = {mc.th[w].key : w \in WriterThreads}
            /\ \A k \in DOMAIN mc.refs :
                    \E w \in WriterThreads :
                        /\ mc.th[w].key = k
                        /\ mc.heap[mc.refs[k]] = complete_entry(k, mc.th[w].errors)
    /\ \A i \in DOMAIN mc.reader.snaps :
            StatusView(mc.reader.snaps[i].returned, mc.refs, mc.heap)
                = mc.reader.snaps[i].seen

C28_Witness ==
    /\ WritersDone
    /\ mc.th["w1"].key = mc.th["w2"].key
    /\ mc.th["w1"].errors # mc.th["w2"].errors
    /\ Len(mc.reader.snaps) = 2
    /\ \E k \in DOMAIN mc.reader.snaps[2].seen :
            /\ mc.reader.snaps[2].seen[k].status = "in_progress"
            /\ mc.heap[mc.refs[k]].status = "failed"
    /\ mc.reader.snaps[1].seen = <<>>

----------------------------------------------------------------------------
(* Aborted mappings, the frame of a call, and the counters *)

\* The identities that are members of the source group of an aborted mapping
\* of the tick in progress and of no mapping that completed.
OnlyInAborted ==
    {id \in Ids : MappingsOf(id, {}) # {} /\ MappingsOf(id, cur.aborted) = {}}

\* C31: a sync_group_to_team call that aborts leaves desired_roles as it was
\* before the call, and the role pass of that tick takes no role from an
\* aborted mapping: it updates only members of the groups of the mappings
\* that completed, each to the highest role of those mappings.
C31_AbortLeavesDesiredRoles ==
    /\ (last.op = "sync" /\ last.raised) => desired_roles = last.desired_pre
    /\ last.op = "roles" =>
            \A c \in last.calls :
                /\ c.target \notin OnlyInAborted
                /\ c.arg = ExpectedDesired(cur.aborted)[lower(OktaEmail(c.target))]

C31_Witness ==
    /\ last.op = "roles" /\ ~config.dry_run
    /\ cur.aborted # {}
    /\ last.calls # {}
    /\ \E id \in OnlyInAborted :
            /\ id \in DOMAIN users
            /\ \E i \in cur.aborted :
                    /\ id \in okta[config.mappings[i].okta_group]
                    /\ users[id].role # config.mappings[i].grafana_role

\* The roster identities that hold the admin flag before the call.
FlagHolders == {id \in DOMAIN last.users_pre : last.users_pre[id].isGrafanaAdmin}

AllAdminLookupsFailed ==
    /\ last.op = "admin"
    /\ last.afaults.groups = Range(config.admin_groups)

\* C32 (as claimed): when the lookup of every configured admin group fails,
\* every Grafana user that held the admin flag before the call has lost it
\* after the call.
C32_AllLookupsFailedRevokesAll ==
    AllAdminLookupsFailed =>
        \A id \in FlagHolders : ~users[id].isGrafanaAdmin

\* C32 (amended): when the lookup of every configured admin group fails and
\* the roster fetch succeeds, the roster is swept against the empty union:
\* the count is the number of flag holders whose set-admin call did not
\* fail; in live mode set-admin(false) is called for every flag holder, no
\* flag is granted, and every holder whose call succeeded has lost the flag;
\* in dry-run mode no call is made and every flag stays.
C32_AllLookupsFailedSweepsEmptyUnion ==
    (AllAdminLookupsFailed /\ ~last.afaults.roster) =>
        /\ last.count = Cardinality(FlagHolders \ last.failed)
        /\ last.failed = IF config.dry_run THEN {} ELSE FlagHolders \cap last.afaults.set
        /\ last.calls = IF config.dry_run THEN {}
                        ELSE {Call("set_user_admin_permission", id, FALSE) : id \in FlagHolders}
        /\ DOMAIN users = DOMAIN last.users_pre
        /\ \A id \in DOMAIN users :
                users[id].isGrafanaAdmin =
                    (id \in FlagHolders /\ (config.dry_run \/ id \in last.afaults.set))

C32_Witness ==
    /\ AllAdminLookupsFailed /\ ~last.afaults.roster /\ ~config.dry_run
    /\ AdminUnion({}) # {}
    /\ FlagHolders # {}
    /\ \A id \in FlagHolders : ~users[id].isGrafanaAdmin

\* The Grafana users whose email is no key of desired_roles.
Unlisted == {id \in DOMAIN users : lower(GrafanaEmail(id)) \notin DOMAIN desired_roles}

\* C33: update_user_roles changes the role only of users whose email is a key
\* of desired_roles: a user that is in no mapped Okta group of the tick keeps
\* the role (and the admin flag) it had, whatever it is, and no role update
\* is issued for it.
C33_RoleOnlyOfDesired ==
    last.op = "roles" =>
        /\ DOMAIN users = DOMAIN last.users_pre
        /\ \A id \in Unlisted :
                /\ users[id] = last.users_pre[id]
                /\ \A c \in last.calls : c.target # id
        /\ \A c \in last.calls :
                /\ c.op = "update_user_role"
                /\ lower(GrafanaEmail(c.target)) \in DOMAIN desired_roles

C33_Witness ==
    /\ last.op = "roles" /\ ~config.dry_run
    /\ last.calls # {}
    /\ \E id \in Unlisted :
            /\ users[id].role = "Admin"
            /\ \A t \in DOMAIN teams : id \notin teams[t]
            /\ \E t \in DOMAIN teams : touched[t].mapping # 0

\* A live sync_group_to_team call has returned with errors = 0.
LiveCallWithoutErrors ==
    /\ last.op = "sync" /\ ~config.dry_run
    /\ ~last.raised
    /\ last.metrics.errors = 0

\* C34 (as claimed): after a live sync_group_to_team call that returns with
\* errors = 0 the members of the team are the members of the Okta group that
\* have a Grafana user.
C34_TeamEqualsProvisionedSource ==
    LiveCallWithoutErrors =>
        LastTeam = last.src \cap DOMAIN users

\* C34 (amended): the same, provided no user lookup of the add loop was
\* rejected with 401, 403 or 404; a member whose lookup was rejected is
\* skipped without an error and stays outside the team.
C34_TeamEqualsResolvedSource ==
    LiveCallWithoutErrors =>
        /\ last.faults.rejected = {} => LastTeam = last.src \cap DOMAIN users
        /\ LastTeam = (last.src \cap DOMAIN users)
                        \ {IdOf(e) : e \in last.faults.rejected}

C34_Witness ==
    /\ LiveCallWithoutErrors
    /\ last.faults.rejected = {}
    /\ last.metrics.users_added > 0
    /\ last.metrics.users_removed > 0
    /\ LastTeam # {} /\ LastTeam # last.pre

\* C39: when the user lookup of an identity of toAdd is rejected with 401,
\* 403 or 404, get_user_by_email answers None and the identity is skipped
\* like a user that never logged in: no add-member call is issued for it, it
\* is not in the team afterwards, it is not among the users added and the
\* error counter counts only the lookups, adds and removes that raised.
C39_RejectedLookupIsSkipped ==
    (last.op = "sync" /\ ~last.raised) =>
        /\ \A e \in last.faults.rejected :
                /\ e \in last.to_add
                /\ lookup_user(users, last.faults.rejected, e) = None
                /\ e \in last.skipped
                /\ IdOf(e) \notin LastTeam
                /\ \A c \in last.calls : c.op = "add_user_to_team" => c.arg # IdOf(e)
        /\ last.metrics.errors =
                Cardinality(last.faults.lookup \cup last.faults.add)
                    + Cardinality(last.faults.remove)
        /\ last.metrics.users_added =
                Cardinality(last.to_add \ (last.skipped \cup last.faults.lookup
                                                \cup last.faults.add))

C39_Witness ==
    /\ last.op = "sync" /\ ~last.raised /\ ~config.dry_run
    /\ last.metrics.errors = 0
    /\ \E e \in last.faults.rejected : IdOf(e) \in DOMAIN users
    /\ last.to_add = last.skipped

\* C35: sync_group_to_team adds and removes members only on the team of its
\* own mapping: every request it issues names that team, every other team
\* exists with the same members before and after the call, no team other
\* than its own appears, and every Grafana user keeps its role and its admin
\* flag.
C35_OnlyOwnTeamTouched ==
    last.op = "sync" =>
        LET own == config.mappings[last.mapping].grafana_team
        IN  /\ \A c \in last.calls : c.target = own
            /\ \A t \in (DOMAIN last.teams_pre) \ {own} :
                    t \in DOMAIN teams /\ teams[t] = last.teams_pre[t]
            /\ DOMAIN teams \subseteq (DOMAIN last.teams_pre) \cup {own}
            /\ users = last.users_pre

C35_Witness ==
    /\ last.op = "sync" /\ ~config.dry_run /\ ~last.raised
    /\ last.metrics.users_removed > 0
    /\ \E t \in DOMAIN teams :
            /\ t # config.mappings[last.mapping].grafana_team
            /\ \E e \in last.to_remove : IdOf(e) \in teams[t]
    /\ \E id \in DOMAIN users : users[id].role = "Admin" /\ users[id].isGrafanaAdmin

\* The errors of the add loop and of the remove loop of the last call.
AddLoopErrors == Cardinality(last.failed \cap last.to_add)

RemoveLoopErrors == Cardinality(last.failed \cap last.to_remove)

\* C36: for a sync_group_to_team call that returns normally, users_added
\* plus the errors of the add loop plus the identities skipped for lacking a
\* Grafana user is the size of toAdd, users_removed plus the errors of the
\* remove loop is the size of toRemove, the error counter is the sum of the
\* errors of the two loops, and so users_added + users_removed + errors is
\* at most |toAdd| + |toRemove|.
C36_CountersPartitionDiff ==
    (last.op = "sync" /\ ~last.raised) =>
        /\ last.failed \subseteq last.to_add \cup last.to_remove
        /\ last.skipped \subseteq last.to_add
        /\ last.skipped \cap last.failed = {}
        /\ last.metrics.errors = AddLoopErrors + RemoveLoopErrors
        /\ last.metrics.users_added + AddLoopErrors + Cardinality(last.skipped)
                = Cardinality(last.to_add)
        /\ last.metrics.users_removed + RemoveLoopErrors = Cardinality(last.to_remove)
        /\ last.metrics.users_added + last.metrics.users_removed + last.metrics.errors
                <= Cardinality(last.to_add) + Cardinality(last.to_remove)

C36_Witness ==
    /\ last.op = "sync" /\ ~last.raised
    /\ AddLoopErrors > 0
    /\ last.skipped # {}
    /\ Cardinality(last.to_add) = 2
    /\ last.metrics.users_added + last.metrics.users_removed + last.metrics.errors
            < Cardinality(last.to_add) + Cardinality(last.to_remove)

\* The roles of the Grafana users are those before the last call.
RolesKept ==
    /\ DOMAIN users = DOMAIN last.users_pre
    /\ \A id \in DOMAIN users : users[id].role = last.users_pre[id].role

\* C37: when every mapping of a tick aborts, desired_roles is empty when the
\* membership phase ends, the role pass is not invoked, and no role is
\* changed in the tick: none by the mappings, none at the place of the role
\* pass and none by the admin pass that ends the tick.
C37_AllAbortedNoRolePass ==
    /\ (last.op = "sync" /\ cur.aborted = AllMappings) =>
            /\ desired_roles = <<>>
            /\ RolesKept
    /\ (pc = "admin" /\ cur.aborted = AllMappings) =>
            /\ last.op = "roles_skipped"
            /\ cur.roles = "skipped"
            /\ desired_roles = <<>>
            /\ last.calls = {}
            /\ RolesKept
    /\ (last.op \in {"admin", "admin_skipped"} /\ done.aborted = AllMappings) =>
            /\ done.roles = "skipped"
            /\ \A c \in last.calls : c.op # "update_user_role"
            /\ RolesKept

C37_Witness ==
    /\ pc = "admin" /\ cur.aborted = AllMappings
    /\ ~config.dry_run
    /\ \E i \in AllMappings : \E id \in okta[config.mappings[i].okta_group] :
            /\ id \in DOMAIN users
            /\ users[id].role # config.mappings[i].grafana_role

\* C38: sync_admin_privileges propagates no port failure: whatever fails,
\* the call returns and the next scheduled run starts.  When the fetch of
\* the roster fails it returns 0, issues no set-admin call and changes no
\* flag.  A set-admin call that fails is not counted and does not stop the
\* sweep: every other identity whose flag differs is counted and, in live
\* mode, gets its call and its flag.
C38_AdminFailuresContained ==
    last.op = "admin" =>
        /\ last.exc = "none"
        /\ pc = "sync" /\ exit_status = {}
        /\ last.afaults.roster =>
                /\ last.count = 0
                /\ last.calls = {}
                /\ users = last.users_pre
        /\ ~last.afaults.roster =>
                LET S     == AdminUnion(last.afaults.groups)
                    other == FlagDiffers(S) \ last.afaults.set
                IN  /\ last.count = Cardinality(other)
                    /\ \A id \in other :
                            ~config.dry_run =>
                                /\ AdminCallsTo(id) # {}
                                /\ users[id].isGrafanaAdmin = (id \in S)
                    /\ \A id \in last.afaults.set :
                            users[id].isGrafanaAdmin = last.users_pre[id].isGrafanaAdmin

C38_Witness ==
    /\ last.op = "admin" /\ ~config.dry_run
    /\ last.afaults.set # {}
    /\ last.count > 0
    /\ \E id \in DOMAIN users : users[id].isGrafanaAdmin # last.users_pre[id].isGrafanaAdmin

----------------------------------------------------------------------------
(* Pagination *)

\* The page the rel="next" link of page i names; 0 when it carries none.
NextPageOf(i) ==
    LET hits == {k \in DOMAIN pg.pages[i].links : pg.pages[i].links[k].rel = "next"}
    IN  IF hits = {} THEN 0
        ELSE pg.pages[i].links[CHOOSE k \in hits : TRUE].url.after

\* The pages met by following the next links from page i, as long as the
\* path has at most k pages.
RECURSIVE ChainFrom(_, _)
ChainFrom(i, k) ==
    IF k = 0 THEN <<>>
    ELSE IF NextPageOf(i) = 0 THEN <<i>>
    ELSE <<i>> \o ChainFrom(NextPageOf(i), k - 1)

\* The chain of next links that starts at the first page is finite: it
\* comes to a page without a next link before it meets a page twice.
ChainFinite ==
    LET c == ChainFrom(1, Len(pg.pages))
    IN  /\ c # <<>>
        /\ NextPageOf(c[Len(c)]) = 0
        /\ \A a, b \in DOMAIN c : a # b => c[a] # c[b]

RECURSIVE ResultsOf(_)
ResultsOf(chain) ==
    IF chain = <<>> THEN <<>>
    ELSE pg.pages[Head(chain)].results \o ResultsOf(Tail(chain))

PagedDone == pg.phase \in {"returned", "raised"}

\* What holds in every state of a _get_paginated call: the requests follow
\* the next links from the first page, a page that carries a next link is
\* never the last one read, and the call returns the results of the pages it
\* read, in the order it read them (for a finite chain: of the whole chain).
PagedSafe ==
    /\ \A k \in DOMAIN pg.fetched :
            pg.fetched[k] = IF k = 1 THEN 1 ELSE NextPageOf(pg.fetched[k - 1])
    /\ pg.all_results = ResultsOf(pg.fetched)
    /\ pg.phase = "returned" =>
            /\ pg.fetched # <<>>
            /\ NextPageOf(pg.fetched[Len(pg.fetched)]) = 0
            /\ \A k \in 1..(Len(pg.fetched) - 1) : NextPageOf(pg.fetched[k]) # 0
            /\ ChainFinite
            /\ pg.fetched = ChainFrom(1, Len(pg.pages))
    /\ (pg.phase = "fetching" /\ ChainFinite) =>
            Len(pg.fetched) < Len(ChainFrom(1, Len(pg.pages)))

\* C40: _get_paginated follows the rel="next" links until a response carries
\* none and returns the concatenation of all pages in page order; when the
\* chain of next links is finite, a call that was started comes to its end.
C40_PaginationFollowsChain ==
    /\ []PagedSafe
    /\ (pg.phase = "fetching" /\ ChainFinite) ~> PagedDone

C40_Witness ==
    /\ pg.phase = "returned"
    /\ Len(pg.pages) = 3
    /\ pg.fetched = <<1, 3, 2>>
    /\ Len(pg.all_results) = 3
    /\ Len(pg.pages[1].links) = 2

====
